---------------------------- MODULE Spec2Model ----------------------------
(***************************************************************************)
(* Model of the crawl-and-rotate orchestration core of ChinaShipParser:    *)
(* URL canonicalisation, account loading, the account pool and its cursor  *)
(* file, the progress file of the fleet-table runner, and the ship-details *)
(* crawl runners (rotating collector, fleet-pages runner, sister-graph     *)
(* crawler, guarded collector).                                            *)
(*                                                                         *)
(* Strings the code inspects character by character (URLs, e-mails) are    *)
(* sequences of one-character strings.                                     *)
(***************************************************************************)
EXTENDS Integers, Sequences, FiniteSets, Bags, TLC

VARIABLES
    canUrl,     \* canonical(): the URL handed to the call, by components
    canDone,    \* canonical(): whether the call has returned
    canOut,     \* canonical(): the string the call returned
    canAgain,   \* canonical(): what it returned on the string it had returned (None: not called)
    accSrc,     \* account loading: the entries read from the account sources, in order
    accLoaded,  \* whether the sources have been loaded
    accOutPool, \* what AccountsPool._load_accounts returned (a list, or it raised)
    accOutAny,  \* what _load_accounts_any returned (a list)
    poolAccounts, \* AccountsPool.accounts
    poolIdx,    \* AccountsPool._idx
    poolFile,   \* the content of AccountsPool.cursor_file
    poolLast,   \* the last call on the pool: its name, what it returned, _idx and the file before it
    progFs,     \* progress saving: the files, by name
    progPc,     \* where the saving process is: "idle", "dumping", "closed"
    progNew,    \* the dictionary _save_progress is writing
    progFile0,  \* the progress file as the first process found it
    progCommitted, \* the dictionary of the last _save_progress that returned (none yet: NoCommit)
    parRun,     \* progress saving: run() of the parallel page manager, its lock and its threads
    retry,      \* one call of _parse_with_retry: its arguments, the page loads, what it returned
    dedupe,     \* dedupe_lines: the lines and the mode, what it returned, and what it returned on that
    cfg,       \* crawl: the runner and its settings
    seeds,      \* crawl: the entries of the seed source
    outDir,     \* crawl: the files of out_dir
    cursors,    \* crawl: the cursor files, by name
    runNo,      \* crawl: how many runs have been started
    phase,      \* crawl: "run" while run() is executing, else "idle"
    wk,         \* crawl: the workers of the run
    hist,       \* crawl: what the run found at its start and has done since
    faults,     \* how often the site or the browser has failed the crawl so far
    queue,      \* crawl: the shared queue of the queue-based runners
    seen,       \* crawl: _seen_urls of the sister-graph crawler
    discovered, \* crawl: the lines of the discovered log
    stop        \* crawl: the stop flag of the guarded collector

canonVars == <<canUrl, canDone, canOut, canAgain>>
accVars == <<accSrc, accLoaded, accOutPool, accOutAny>>
poolVars == <<poolAccounts, poolIdx, poolFile, poolLast>>
saveVars == <<progPc, progNew, progFile0>>
progVars == <<progFs, progCommitted, saveVars, parRun>>
queueVars == <<queue, seen, discovered, stop>>
crawlVars == <<cfg, seeds, outDir, cursors, runNo, phase, wk, hist, faults, queueVars>>
vars == <<canonVars, accVars, poolVars, progVars, crawlVars, retry, dedupe>>

\* what the actions of one part of the model leave alone
exceptCanon == <<accVars, poolVars, progVars, crawlVars, retry, dedupe>>
exceptAcc == <<canonVars, poolVars, progVars, crawlVars, retry, dedupe>>
exceptPool == <<canonVars, accVars, progVars, crawlVars, retry, dedupe>>
exceptProg == <<canonVars, accVars, poolVars, crawlVars, parRun, retry, dedupe>>
exceptPar == <<canonVars, accVars, poolVars, crawlVars, saveVars, retry, dedupe>>
exceptCrawl == <<canonVars, accVars, poolVars, progVars, retry, dedupe>>
exceptRetry == <<canonVars, accVars, poolVars, progVars, crawlVars, dedupe>>
exceptDedupe == <<canonVars, accVars, poolVars, progVars, crawlVars, retry>>

----------------------------------------------------------------------------
(* Strings                                                                 *)

\* e evaluated once, and its value handed to F
Let(e, F(_)) == CHOOSE y \in {F(x) : x \in {e}} : TRUE

\* str.lower() on one character (the letters of the model's alphabet)
LowerChar(c) ==
    CASE c = "A" -> "a" [] c = "B" -> "b" [] c = "C" -> "c" [] c = "H" -> "h"
      [] c = "N" -> "n" [] c = "P" -> "p" [] c = "S" -> "s" [] c = "T" -> "t"
      [] c = "X" -> "x" [] OTHER -> c

\* str.lower()
LowerSeq(s) == Let(s, LAMBDA v : [i \in 1..Len(v) |-> LowerChar(v[i])])

\* the characters str.strip() removes
Whitespace == {" ", "\t"}

\* the characters of .strip('\'"<> ')
WrapChars == {"'", "\"", "<", ">", " "}

\* str.lstrip(chars): drop the leading characters that are in cs
LStrip(s, cs) ==
    Let(s, LAMBDA v :
        LET keep == {i \in 1..Len(v) : v[i] \notin cs}
        IN  IF keep = {} THEN <<>>
            ELSE SubSeq(v, CHOOSE i \in keep : \A j \in keep : i <= j, Len(v)))

\* str.rstrip(chars): drop the trailing characters that are in cs
RStrip(s, cs) ==
    Let(s, LAMBDA v :
        LET keep == {i \in 1..Len(v) : v[i] \notin cs}
        IN  IF keep = {} THEN <<>>
            ELSE SubSeq(v, 1, CHOOSE i \in keep : \A j \in keep : i >= j))

\* str.strip(chars)
Strip(s, cs) == RStrip(LStrip(s, cs), cs)

\* str.replace("\\", "/")
ReplaceBackslash(s) ==
    Let(s, LAMBDA v : [i \in 1..Len(v) |-> IF v[i] = "\\" THEN "/" ELSE v[i]])

\* str.find: the first index (1-based) of a character of cs in s, 0 if none
FindAny(s, cs) ==
    Let(s, LAMBDA v :
        LET at == {i \in 1..Len(v) : v[i] \in cs}
        IN  IF at = {} THEN 0 ELSE CHOOSE i \in at : \A j \in at : i <= j)

\* s[from:] of Python, from counted from 1
From(s, from) == SubSeq(s, from, Len(s))

EndsWith(s, t) ==
    Let(s, LAMBDA v : Len(v) >= Len(t) /\ SubSeq(v, Len(v) - Len(t) + 1, Len(v)) = t)

StartsWith(s, t) == Let(s, LAMBDA v : Len(v) >= Len(t) /\ SubSeq(v, 1, Len(t)) = t)

----------------------------------------------------------------------------
(* urllib.parse.urlsplit / urlunsplit, as canonical() uses them            *)

Letters == {"a", "b", "c", "f", "h", "n", "p", "q", "s", "t", "x", "y",
            "A", "B", "C", "H", "N", "P", "S", "T", "X"}
Digits == {"0", "1", "3", "4", "8"}
SchemeChars == Letters \cup Digits \cup {"+", "-", "."}

HTTP == <<"h", "t", "t", "p">>
HTTPS == <<"h", "t", "t", "p", "s">>

\* urlsplit, the scheme: url[:i].lower() when url[:i] is a scheme name
SplitScheme(url) ==
    Let(FindAny(url, {":"}), LAMBDA i :
        IF i > 1 /\ url[1] \in Letters /\ \A k \in 1..(i - 1) : url[k] \in SchemeChars
        THEN [scheme |-> LowerSeq(SubSeq(url, 1, i - 1)), rest |-> From(url, i + 1)]
        ELSE [scheme |-> <<>>, rest |-> url])

\* urlsplit, the netloc: after "//", up to the first of "/", "?", "#" (_splitnetloc)
SplitNetloc(a) ==
    IF StartsWith(a.rest, <<"/", "/">>)
    THEN Let(From(a.rest, 3), LAMBDA r :
             Let(FindAny(r, {"/", "?", "#"}), LAMBDA d :
                 [scheme |-> a.scheme,
                  netloc |-> IF d = 0 THEN r ELSE SubSeq(r, 1, d - 1),
                  rest |-> IF d = 0 THEN <<>> ELSE From(r, d)]))
    ELSE [scheme |-> a.scheme, netloc |-> <<>>, rest |-> a.rest]

\* urlsplit, the fragment: url.split('#', 1)
SplitFragment(b) ==
    Let(FindAny(b.rest, {"#"}), LAMBDA h :
        [scheme |-> b.scheme, netloc |-> b.netloc,
         fragment |-> IF h = 0 THEN <<>> ELSE From(b.rest, h + 1),
         rest |-> IF h = 0 THEN b.rest ELSE SubSeq(b.rest, 1, h - 1)])

\* urlsplit, the query: url.split('?', 1)
SplitQuery(c) ==
    Let(FindAny(c.rest, {"?"}), LAMBDA q :
        [scheme |-> c.scheme, netloc |-> c.netloc,
         path |-> IF q = 0 THEN c.rest ELSE SubSeq(c.rest, 1, q - 1),
         query |-> IF q = 0 THEN <<>> ELSE From(c.rest, q + 1),
         fragment |-> c.fragment])

\* urlsplit(url): [scheme, netloc, path, query, fragment]
UrlSplit(url) ==
    Let(url, LAMBDA u :
        Let(SplitScheme(u), LAMBDA a :
            Let(SplitNetloc(a), LAMBDA b :
                Let(SplitFragment(b), SplitQuery))))

\* the schemes of urllib.parse.uses_netloc that the model's URLs can have
UsesNetloc == {<<>>, HTTP, HTTPS}

\* urlunsplit((scheme, netloc, path, query, fragment))
UrlUnsplit(scheme, netloc, path, query, fragment) ==
    Let(IF \/ netloc # <<>>
           \/ (scheme # <<>> /\ scheme \in UsesNetloc /\ ~StartsWith(path, <<"/", "/">>))
        THEN <<"/", "/">> \o netloc
               \o (IF path # <<>> /\ Head(path) # "/" THEN <<"/">> ELSE <<>>)
               \o path
        ELSE path,
        LAMBDA u1 :
            (IF scheme # <<>> THEN scheme \o <<":">> ELSE <<>>)
              \o u1
              \o (IF query # <<>> THEN <<"?">> \o query ELSE <<>>)
              \o (IF fragment # <<>> THEN <<"#">> \o fragment ELSE <<>>))

\* netloc without the default port of the scheme
DropDefaultPort(scheme, netloc) ==
    Let(IF EndsWith(netloc, <<":", "8", "0">>) /\ scheme = HTTP
        THEN SubSeq(netloc, 1, Len(netloc) - 3) ELSE netloc,
        LAMBDA n1 :
            IF EndsWith(n1, <<":", "4", "4", "3">>) /\ scheme = HTTPS
            THEN SubSeq(n1, 1, Len(n1) - 4) ELSE n1)

\* canonical(url) / canonical_url(u) / canonicalize(url): the three copies agree
canonical(url) ==
    Let(Strip(ReplaceBackslash(Strip(url, Whitespace)), WrapChars), LAMBDA u :
        IF u = <<>> THEN <<>>
        ELSE Let(UrlSplit(u), LAMBDA parts :
                 Let(LowerSeq(parts.scheme), LAMBDA scheme :
                     Let(DropDefaultPort(scheme, LowerSeq(parts.netloc)), LAMBDA netloc :
                         UrlUnsplit(scheme, netloc, parts.path, parts.query, <<>>)))))

----------------------------------------------------------------------------
(* dedupe_lines of utility.py                                              *)

\* the characters str.strip() removes from a line
LineSpace == Whitespace \cup {"\n"}

\* a dedupe_lines that compares the stripped lines whatever the mode
DedupeKeyStrict(stripped, loose) == stripped

\* key = canonicalize(stripped) if loose else stripped
DedupeKey(stripped, loose) == IF loose THEN canonical(stripped) ELSE stripped

\* the loop of dedupe_lines: a blank line is passed over, and so is a line
\* whose key is in seen; else the key is added and the stripped line appended
RECURSIVE DedupeLoop(_, _, _, _)
DedupeLoop(lines, loose, seenKeys, out) ==
    IF lines = <<>> THEN out
    ELSE Let(Strip(RStrip(Head(lines), {"\n"}), LineSpace), LAMBDA stripped :
             IF stripped = <<>> \/ DedupeKey(stripped, loose) \in seenKeys
             THEN DedupeLoop(Tail(lines), loose, seenKeys, out)
             ELSE DedupeLoop(Tail(lines), loose, seenKeys \cup {DedupeKey(stripped, loose)},
                             Append(out, stripped)))

\* dedupe_lines(lines, loose)
dedupe_lines(lines, loose) == DedupeLoop(lines, loose, {}, <<>>)

\* the longest list of lines
MaxLines == 3

\* the lines of the file: empty, blank, URLs with the same and with different
\* canonical forms, and lines that canonicalize() turns into ""
FileLines ==
    {<<>>,
     <<" ", "\n">>,
     HTTP \o <<":", "/", "/", "a", ".", "c", "n", "/", "1", "\n">>,
     <<"\t", "H", "T", "T", "P", ":", "/", "/", "A", ".", "c", "n", ":", "8", "0", "/", "1", "#", "f", "\n">>,
     HTTP \o <<":", "/", "/", "a", ".", "c", "n", "/", "2", " ">>,
     <<"\"", "\n">>,
     <<"'", ">">>}

NoLines == [lines |-> <<>>, loose |-> FALSE, pc |-> "off", out |-> <<>>, again |-> <<>>]

\* dedupe_lines is not looked at
DedupeIdle == dedupe = NoLines

\* the calls of dedupe_lines
DedupeCalls ==
    [lines : UNION {[1..n -> FileLines] : n \in 0..MaxLines}, loose : BOOLEAN,
     pc : {"new"}, out : {<<>>}, again : {<<>>}]

\* out = dedupe_lines(lines, loose)
Dedupe ==
    /\ dedupe.pc = "new"
    /\ dedupe' = [dedupe EXCEPT !.pc = "once", !.out = dedupe_lines(dedupe.lines, dedupe.loose)]
    /\ UNCHANGED exceptDedupe

\* dedupe_lines(out, loose): the function on what it returned
DedupeAgain ==
    /\ dedupe.pc = "once"
    /\ dedupe' = [dedupe EXCEPT !.pc = "twice", !.again = dedupe_lines(dedupe.out, dedupe.loose)]
    /\ UNCHANGED exceptDedupe

----------------------------------------------------------------------------
(* The URLs canonical() is applied to: every combination of these parts    *)

None == <<"none">>

Leads == {<<>>, <<"'">>, <<"\t", "\"">>}
Trails == {<<>>, <<" ">>, <<"\"", "\t">>}
Schemes == {HTTP, <<"H", "T", "T", "P">>, HTTPS}
Hosts == {<<"a", ".", "c", "n">>, <<"A", ".", "c", "n">>}
Ports == {<<>>, <<":", "8", "0">>, <<":", "4", "4", "3">>}
Paths == {<<>>, <<"/", "x">>, <<"/", "X">>, <<"/", "x", "\\", "y">>, <<"/", "x", " ">>}
Queries == {None, <<"Q", "=", "1">>, <<"q", "=", "<", "b", ">">>}
Frags == {None, <<>>, <<"f">>}

UrlParts == [lead : Leads, scheme : Schemes, host : Hosts, port : Ports,
             path : Paths, query : Queries, frag : Frags, trail : Trails]

\* the URL string that has these parts
Raw(c) ==
    c.lead \o c.scheme \o <<":", "/", "/">> \o c.host \o c.port \o c.path
      \o (IF c.query = None THEN <<>> ELSE <<"?">> \o c.query)
      \o (IF c.frag = None THEN <<>> ELSE <<"#">> \o c.frag)
      \o c.trail

NoUrl == [lead |-> <<>>, scheme |-> <<>>, host |-> <<>>, port |-> <<>>,
          path |-> <<>>, query |-> None, frag |-> None, trail |-> <<>>]

CanonIdle == canUrl = NoUrl /\ canDone = FALSE /\ canOut = <<>> /\ canAgain = None

----------------------------------------------------------------------------
(* Account loading: AccountsPool._load_accounts and _load_accounts_any     *)

\* the longest list of source entries
MaxRecs == 3

AT_X == <<"@", "x">>
LOWER_A == <<"a">> \o AT_X
UPPER_A == <<"A">> \o AT_X
LOWER_B == <<"b">> \o AT_X

\* one JSON object of the sources (hasTs = FALSE: it has no "timestamp" key)
Rec(e, pw, has, t) == [dict |-> TRUE, email |-> e, password |-> pw, hasTs |-> has, ts |-> t]

\* a line or array element that is not a JSON object
Malformed == [dict |-> FALSE, email |-> <<>>, password |-> "", hasTs |-> FALSE, ts |-> 0]

SourceEntries ==
    {Rec(LOWER_A, "p", FALSE, 0), Rec(LOWER_A, "q", TRUE, 1), Rec(LOWER_A, "r", TRUE, 2),
     Rec(UPPER_A, "p", FALSE, 0), Rec(UPPER_A, "q", TRUE, 1), Rec(UPPER_A, "s", TRUE, 2),
     Rec(LOWER_B, "q", TRUE, 1),
     Rec(<<>>, "q", TRUE, 1), Rec(LOWER_A, "", TRUE, 2),
     Malformed}

SourceLists == UNION {[1..n -> SourceEntries] : n \in 0..MaxRecs}

\* parse_any: only JSON objects are kept (_append_obj)
ParseAny(src) == SelectSeq(src, LAMBDA o : o.dict)

\* a filter that looks at the e-mail only
ValidAccountEmailOnly(a) == a.email # <<>>

\* a.get("email") and a.get("password")
ValidAccount(a) == a.email # <<>> /\ a.password # ""

\* str(a.get("email")).strip().lower()
EmailKey(a) == LowerSeq(Strip(a.email, Whitespace))

\* a.get("timestamp") or 0  /  a.get("timestamp", 0)
TsOrZero(a) == IF a.hasTs THEN a.ts ELSE 0

\* the last-wins variant of the comparison below
NewerLastWins(a, old) == TRUE

\* t_new >= t_old: the later record replaces the kept one
Newer(a, old) == TsOrZero(a) >= TsOrZero(old)

\* by_email[email] = a, on the insertion-ordered dict kept as the list of its values
DictPut(by, a) ==
    IF \E i \in 1..Len(by) : EmailKey(by[i]) = EmailKey(a)
    THEN LET i == CHOOSE k \in 1..Len(by) : EmailKey(by[k]) = EmailKey(a)
         IN  IF Newer(a, by[i]) THEN [by EXCEPT ![i] = a] ELSE by
    ELSE Append(by, a)

RECURSIVE DedupByEmail(_, _)
DedupByEmail(accs, by) ==
    IF accs = <<>> THEN by
    ELSE LET a == Head(accs)
         IN  DedupByEmail(Tail(accs), IF EmailKey(a) = <<>> THEN by ELSE DictPut(by, a))

\* what a loader that may raise hands back
Loaded(arr) == [raised |-> FALSE, accounts |-> arr]
LoadError == [raised |-> TRUE, accounts |-> <<>>]

\* AccountsPool._load_accounts: raises when no valid record is left
LoadAccountsPool(src) ==
    LET accs == SelectSeq(ParseAny(src), ValidAccount)
        arr == DedupByEmail(accs, <<>>)
    IN  IF accs = <<>> \/ arr = <<>> THEN LoadError ELSE Loaded(arr)

\* _load_accounts_any: returns the list, empty or not
LoadAccountsAny(src) == DedupByEmail(SelectSeq(ParseAny(src), ValidAccount), <<>>)

AccIdle == accSrc = <<>> /\ accLoaded = FALSE /\ accOutPool = Loaded(<<>>) /\ accOutAny = <<>>

----------------------------------------------------------------------------
(* AccountsPool: the cursor over the accounts and its file                 *)

\* the largest pool
MaxAccounts == 3

\* the accounts of a pool of n accounts, in file order
AccountList(n) == [k \in 1..n |-> <<"account", k>>]

\* accounts[i], i counted from 0 as the code counts
AccountAt(accounts, i) == accounts[i + 1]

NoAccount == <<"account", 0>>

\* a cursor file: absent, not a JSON object, an object without "index", {"index": i}
NoFile == [kind |-> "absent", index |-> 0]
NotJson == [kind |-> "garbage", index |-> 0]
NoIndexKey == [kind |-> "nokey", index |-> 0]
CursorJson(i) == [kind |-> "json", index |-> i]

\* {"index": "<i>"} (the digits of i in a string), {"index": i + 0.5},
\* {"index": "abc"}, {"index": null}
CursorText(i) == [kind |-> "text", index |-> i]
CursorReal(i) == [kind |-> "real", index |-> i]
CursorWord == [kind |-> "word", index |-> 0]
CursorNull == [kind |-> "null", index |-> 0]

CursorFiles ==
    {NoFile, NotJson, NoIndexKey, CursorWord, CursorNull}
        \cup {CursorJson(i) : i \in (0 - 1)..MaxAccounts}
        \cup {CursorText(i) : i \in (0 - 1)..MaxAccounts}
        \cup {CursorReal(i) : i \in (0 - 1)..MaxAccounts}

\* int(obj.get("index", 0)) returns a value: for an integer, for a string of
\* digits, for a float; without the key the default 0 is converted; for a
\* word or null it raises, as json.loads and read_text do for the other files
IntConverts(file) == file.kind \in {"json", "text", "real", "nokey"}

\* the value of int(...): a float is cut towards zero
IntValue(file) ==
    IF file.kind = "real" /\ file.index < 0 THEN file.index + 1 ELSE file.index

\* the stored index taken as it is converted, with no look at the pool
LoadCursorUnchecked(file, n) == IF IntConverts(file) THEN IntValue(file) ELSE 0

\* _load_cursor: the stored index when it is one of the pool, else 0
LoadCursor(file, n) ==
    IF IntConverts(file) /\ 0 <= IntValue(file) /\ IntValue(file) < n THEN IntValue(file) ELSE 0

\* the cursor that stays on the last account
NextIndexNoWrap(i, n) == IF i + 1 < n THEN i + 1 ELSE i

\* next: (self._idx + 1) % len(self.accounts)
NextIndex(i, n) == (i + 1) % n

\* an index kept inside the pool by clamping
ForcedIndexClamped(idx, n) == IF idx < 0 THEN 0 ELSE IF idx >= n THEN n - 1 ELSE idx

\* force_set_index: int(idx) % len(self.accounts)
ForcedIndex(idx, n) == idx % n

\* the arguments the tests pass to force_set_index
ForcedArgs == (0 - MaxAccounts - 1)..(2 * MaxAccounts + 1)

PoolCall(op, ret) ==
    [op |-> op, ret |-> ret, idx0 |-> poolIdx, file0 |-> poolFile, arg |-> 0, prev |-> poolLast.op]

\* a cursor that is moved and not written
SaveCursorSkipped(file, idx) == file

\* _save_cursor: {"index": self._idx} is written to the cursor file
SaveCursor(file, idx) == CursorJson(idx)

PoolIdle ==
    /\ poolAccounts = <<>>
    /\ poolIdx = 0
    /\ poolFile = NoFile
    /\ poolLast = [op |-> "idle", ret |-> NoAccount, idx0 |-> 0, file0 |-> NoFile, arg |-> 0,
                   prev |-> "idle"]

\* AccountsPool(accounts_file, cursor_file), in a new process over the same files
PoolOpen ==
    /\ poolAccounts # <<>>
    /\ poolIdx' = LoadCursor(poolFile, Len(poolAccounts))
    /\ poolLast' = PoolCall("open", NoAccount)
    /\ UNCHANGED <<poolAccounts, poolFile, exceptPool>>

\* AccountsPool.next()
PoolNext ==
    /\ poolAccounts # <<>>
    /\ poolIdx' = NextIndex(poolIdx, Len(poolAccounts))
    /\ poolFile' = SaveCursor(poolFile, poolIdx')
    /\ poolLast' = PoolCall("next", AccountAt(poolAccounts, poolIdx'))
    /\ UNCHANGED <<poolAccounts, exceptPool>>

\* AccountsPool.current()
PoolCurrent ==
    /\ poolAccounts # <<>>
    /\ poolLast' = PoolCall("current", AccountAt(poolAccounts, poolIdx))
    /\ UNCHANGED <<poolAccounts, poolIdx, poolFile, exceptPool>>

\* AccountsPool.force_set_index(idx)
PoolForceSetIndex ==
    /\ poolAccounts # <<>>
    /\ \E idx \in ForcedArgs :
          /\ poolIdx' = ForcedIndex(idx, Len(poolAccounts))
          /\ poolFile' = SaveCursor(poolFile, poolIdx')
          /\ poolLast' = [PoolCall("force_set_index", NoAccount) EXCEPT !.arg = idx]
    /\ UNCHANGED <<poolAccounts, exceptPool>>

\* both loaders run on the same sources
LoadAccounts ==
    /\ ~accLoaded
    /\ accLoaded' = TRUE
    /\ accOutPool' = LoadAccountsPool(accSrc)
    /\ accOutAny' = LoadAccountsAny(accSrc)
    /\ UNCHANGED <<accSrc, exceptAcc>>

----------------------------------------------------------------------------
(* File names (pathlib) and the progress file of the fleet-table collector  *)

\* a file name is the sequence of its dot-separated parts; PurePath.stem
Stem(name) == IF Len(name) > 1 THEN SubSeq(name, 1, Len(name) - 1) ELSE name

\* PurePath.with_suffix(suffix): the last suffix replaced by suffix
WithSuffix(name, suffix) == Stem(name) \o suffix

\* progress_path
ProgressPath == <<"fleet_progress", "json">>

\* the save that writes the progress file itself
InPlacePath(path) == path

\* tmp = self.progress_path.with_suffix(".json.tmp")
TmpPath(path) == WithSuffix(path, <<"json", "tmp">>)

\* the most pages of the index
MaxPages == 2

\* str(page_no)
PageKey(n) ==
    CASE n = 1 -> "1" [] n = 2 -> "2" [] n = 3 -> "3" [] n = 4 -> "4" [] OTHER -> "5"

PageKeys == {PageKey(n) : n \in 1..MaxPages}

\* {"done": {}, "meta": {}}
EmptyProgress == [done |-> <<>>, index |-> FALSE]

NoCommit == [done |-> <<"none">>, index |-> FALSE]

\* json.dump(prog): the text, token by token ("done" keeps insertion order)
Encode(prog) ==
    <<"{", "done:">> \o prog.done \o <<"meta:">>
      \o (IF prog.index THEN <<"index">> ELSE <<>>) \o <<"}">>

\* json.load: the object of a complete text; anything else raises
Decode(data) ==
    Let(data, LAMBDA t :
        IF t = <<"[", "]">> THEN [ok |-> TRUE, dict |-> FALSE, obj |-> EmptyProgress]
        ELSE IF Len(t) >= 2 /\ t[1] = "{" /\ t[Len(t)] = "}"
        THEN Let(SubSeq(t, 2, Len(t) - 1), LAMBDA inner :
                 Let(FindAny(inner, {"meta:"}), LAMBDA m :
                     LET hasDone == inner # <<>> /\ inner[1] = "done:"
                         keys == IF hasDone
                                 THEN SubSeq(inner, 2, IF m = 0 THEN Len(inner) ELSE m - 1)
                                 ELSE <<>>
                         meta == IF m = 0 THEN <<>> ELSE From(inner, m + 1)
                         wellFormed ==
                             /\ hasDone \/ m = 1 \/ inner = <<>>
                             /\ \A i \in 1..Len(keys) : keys[i] \in PageKeys
                             /\ meta \in {<<>>, <<"index">>}
                     IN  [ok |-> wellFormed, dict |-> TRUE,
                          obj |-> IF wellFormed
                                  THEN [done |-> keys, index |-> meta = <<"index">>]
                                  ELSE EmptyProgress]))
        ELSE [ok |-> FALSE, dict |-> FALSE, obj |-> EmptyProgress])

Absent == [exists |-> FALSE, data |-> <<>>]
File(data) == [exists |-> TRUE, data |-> data]

\* what a _load_progress that raised would hand to its caller
Raised == [done |-> <<"raised">>, index |-> FALSE]

\* a _load_progress without the except clause: a text that is not JSON raises
LoadProgressUncaught(fs) ==
    IF ~fs[ProgressPath].exists THEN EmptyProgress
    ELSE Let(Decode(fs[ProgressPath].data), LAMBDA r :
             IF ~r.ok THEN Raised ELSE IF r.dict THEN r.obj ELSE EmptyProgress)

\* _load_progress: the stored object with "done" and "meta", else the empty one
LoadProgress(fs) ==
    IF ~fs[ProgressPath].exists THEN EmptyProgress
    ELSE Let(Decode(fs[ProgressPath].data), LAMBDA r :
             IF r.ok /\ r.dict THEN r.obj ELSE EmptyProgress)

\* prog["done"][str(page_no)] = {...}
DonePut(prog, key) ==
    IF \E i \in 1..Len(prog.done) : prog.done[i] = key THEN prog
    ELSE [prog EXCEPT !.done = Append(prog.done, key)]

\* Path.replace(target): rename over the target
Replace(fs, src, dst) ==
    IF src = dst THEN fs ELSE [fs EXCEPT ![dst] = fs[src], ![src] = Absent]

ProgFiles == {ProgressPath, TmpPath(ProgressPath)}


\* _save_progress(prog), up to open(tmp, "w"): the file is created or emptied
SaveOpen(prog) ==
    /\ progNew' = prog
    /\ progFs' = [progFs EXCEPT ![TmpPath(ProgressPath)] = File(<<>>)]
    /\ progPc' = "dumping"
    /\ UNCHANGED <<progFile0, progCommitted, exceptProg>>

\* _mark_done(page_no, url, rows_count), up to the open of the temp file
MarkDoneOpen ==
    /\ progPc = "idle"
    /\ \E n \in 1..MaxPages : SaveOpen(DonePut(LoadProgress(progFs), PageKey(n)))

\* run: prog["meta"]["index"] = [...], up to the open of the temp file
SaveIndexOpen ==
    /\ progPc = "idle"
    /\ SaveOpen([LoadProgress(progFs) EXCEPT !.index = TRUE])

\* json.dump(prog, f): the next piece of the text reaches the file
DumpChunk ==
    /\ progPc = "dumping"
    /\ LET tmp == TmpPath(ProgressPath)
           n == Len(progFs[tmp].data)
       IN  /\ n < Len(Encode(progNew))
           /\ progFs' = [progFs EXCEPT ![tmp] = File(Append(progFs[tmp].data, Encode(progNew)[n + 1]))]
    /\ UNCHANGED <<progPc, progNew, progFile0, progCommitted, exceptProg>>

\* the end of the with block: the file is complete and closed
DumpClose ==
    /\ progPc = "dumping"
    /\ progFs[TmpPath(ProgressPath)].data = Encode(progNew)
    /\ progPc' = "closed"
    /\ UNCHANGED <<progFs, progNew, progFile0, progCommitted, exceptProg>>

\* tmp.replace(self.progress_path), and _save_progress returns
SaveReplace ==
    /\ progPc = "closed"
    /\ progFs' = Replace(progFs, TmpPath(ProgressPath), ProgressPath)
    /\ progCommitted' = progNew
    /\ progPc' = "idle"
    /\ UNCHANGED <<progNew, progFile0, exceptProg>>

\* the process stops inside _save_progress; the next one starts from the files
ProgCrash ==
    /\ progPc # "idle"
    /\ progPc' = "idle"
    /\ progNew' = EmptyProgress
    /\ UNCHANGED <<progFs, progFile0, progCommitted, exceptProg>>

\* the most workers (threads) of a run
MaxWorkers == 2

\* no thread holds _progress_lock
NoHolder == 0 - 1

\* the main thread of run, and the threads of its pool
MainThread == 0
PoolThreads == 1..MaxWorkers
ParThreads == {MainThread} \cup PoolThreads

IdleThread == [pc |-> "idle", key |-> "", prog |-> EmptyProgress]

\* the manager between two runs
ParIdle ==
    [phase |-> "idle", workers |-> 1, lock |-> NoHolder, jobs |-> <<>>,
     th |-> [t \in ParThreads |-> IdleThread], returned |-> {}, built |-> FALSE,
     pageFiles |-> [k \in PageKeys |-> "absent"], index |-> {}, failed |-> {}]

ProgIdle ==
    /\ progFs = [f \in ProgFiles |-> Absent]
    /\ progPc = "idle"
    /\ progNew = EmptyProgress
    /\ progFile0 = Absent
    /\ progCommitted = NoCommit
    /\ parRun = ParIdle

\* the pages of S, sorted by page number
PageList(S) == SelectSeq([n \in 1..MaxPages |-> n], LAMBDA n : n \in S)

\* the keys of a "done" map
DoneKeys(prog) == {prog.done[i] : i \in 1..Len(prog.done)}

\* a lock that anyone can take at any time
LockFreeAlways(lock) == TRUE

\* threading.Lock: it can be taken when no thread holds it
LockFree(lock) == lock = NoHolder

\* run(start_url, rebuild_index): with rebuild_index the index is built by
\* _build_page_index and saved into "meta" under the lock; without it the
\* stored index is read, and built only if none is stored
ParRunStart ==
    /\ parRun.phase = "idle"
    /\ \E rebuild \in BOOLEAN, w \in PoolThreads :
          parRun' = IF rebuild
                    THEN [parRun EXCEPT !.phase = "index", !.workers = w, !.built = TRUE,
                                        !.th[MainThread] = [IdleThread EXCEPT !.pc = "lock", !.key = "index"]]
                    ELSE [parRun EXCEPT !.phase = "filter", !.workers = w,
                                        !.built = ~LoadProgress(progFs).index]
    /\ UNCHANGED <<progFs, progCommitted, exceptPar>>

\* run: the pages of the index that "done" does not hold are the jobs; with no
\* job run returns, else the jobs are submitted to the pool
ParFilter ==
    /\ parRun.phase = "filter"
    /\ \E index \in SUBSET (1..MaxPages) \ {{}} :
          LET done == DoneKeys(LoadProgress(progFs))
              jobs == PageList({n \in index : PageKey(n) \notin done})
          IN  parRun' = [parRun EXCEPT !.jobs = jobs, !.index = index,
                                       !.phase = IF jobs = <<>> THEN "idle" ELSE "pool"]
    /\ UNCHANGED <<progFs, progCommitted, exceptPar>>

\* a job that marks its page before the page file is written
AfterRowsMarkFirst(ok) == IF ok THEN "lock" ELSE "idle"

\* _process_page after collect_rows: the page file is written next; an
\* exception ends the job
AfterRows(ok) == IF ok THEN "dump" ELSE "idle"

\* _process_page(job) in a free thread of the pool: the driver is made, the rows
\* are collected and the page file is opened for writing (it is there, empty);
\* an exception before that ends the job and leaves the files alone
ParTake(t) ==
    /\ parRun.phase = "pool"
    /\ t <= parRun.workers
    /\ parRun.th[t].pc = "idle"
    /\ parRun.jobs # <<>>
    /\ \E ok \in BOOLEAN :
          LET key == PageKey(Head(parRun.jobs))
          IN  parRun' = [parRun EXCEPT !.jobs = Tail(@),
                                       !.failed = IF ok THEN @ \ {key} ELSE @ \cup {key},
                                       !.pageFiles[key] = IF ok THEN "partial" ELSE @,
                                       !.th[t] = IF ok
                                                 THEN [IdleThread EXCEPT !.pc = AfterRows(ok),
                                                                         !.key = key]
                                                 ELSE IdleThread]
    /\ UNCHANGED <<progFs, progCommitted, exceptPar>>

\* json.dump into the page file: the file is complete and _mark_done is called
\* next, or the write raises, the file stays cut short and the job ends
ParDump(t) ==
    /\ parRun.th[t].pc = "dump"
    /\ \E ok \in BOOLEAN :
          parRun' = IF ok
                    THEN [parRun EXCEPT !.pageFiles[parRun.th[t].key] = "full",
                                        !.th[t].pc = "lock"]
                    ELSE [parRun EXCEPT !.failed = @ \cup {parRun.th[t].key},
                                        !.th[t] = IdleThread]
    /\ UNCHANGED <<progFs, progCommitted, exceptPar>>

\* with self._progress_lock: the thread waits until it can take the lock
MarkAcquire(t) ==
    /\ parRun.th[t].pc = "lock"
    /\ LockFree(parRun.lock)
    /\ parRun' = [parRun EXCEPT !.lock = t, !.th[t].pc = "load"]
    /\ UNCHANGED <<progFs, progCommitted, exceptPar>>

\* prog = self._load_progress(), and the entry is put into prog
MarkLoad(t) ==
    /\ parRun.th[t].pc = "load"
    /\ LET prog == LoadProgress(progFs)
       IN  parRun' = [parRun EXCEPT !.th[t].pc = "write",
                                    !.th[t].prog = IF parRun.th[t].key = "index"
                                                   THEN [prog EXCEPT !.index = TRUE]
                                                   ELSE DonePut(prog, parRun.th[t].key)]
    /\ UNCHANGED <<progFs, progCommitted, exceptPar>>

\* _save_progress(prog): the temp file is written and closed
MarkWrite(t) ==
    /\ parRun.th[t].pc = "write"
    /\ progFs' = [progFs EXCEPT ![TmpPath(ProgressPath)] = File(Encode(parRun.th[t].prog))]
    /\ parRun' = [parRun EXCEPT !.th[t].pc = "replace"]
    /\ UNCHANGED <<progCommitted, exceptPar>>

\* tmp.replace(self.progress_path); without the temp file it raises
MarkReplace(t) ==
    /\ parRun.th[t].pc = "replace"
    /\ IF progFs[TmpPath(ProgressPath)].exists
       THEN /\ progFs' = Replace(progFs, TmpPath(ProgressPath), ProgressPath)
            /\ progCommitted' = LoadProgress(progFs')
            /\ parRun' = [parRun EXCEPT !.th[t].pc = "unlock"]
       ELSE /\ parRun' = [parRun EXCEPT !.th[t].pc = "raise"]
            /\ UNCHANGED <<progFs, progCommitted>>
    /\ UNCHANGED exceptPar

\* the end of the with block: the lock is released and the call returns (or its
\* exception reaches _process_page); after the index save run goes on
MarkRelease(t) ==
    /\ parRun.th[t].pc \in {"unlock", "raise"}
    /\ parRun' = [parRun EXCEPT !.lock = IF @ = t THEN NoHolder ELSE @,
                                !.th[t] = IdleThread,
                                !.returned = IF parRun.th[t].pc = "unlock"
                                             THEN @ \cup {parRun.th[t].key} ELSE @,
                                !.failed = IF parRun.th[t].pc = "raise" /\ t # MainThread
                                           THEN @ \cup {parRun.th[t].key} ELSE @,
                                !.phase = IF t = MainThread THEN "filter" ELSE @]
    /\ UNCHANGED <<progFs, progCommitted, exceptPar>>

\* every future is done: the pool is shut down and run returns
ParRunFinish ==
    /\ parRun.phase = "pool"
    /\ parRun.jobs = <<>>
    /\ \A t \in ParThreads : parRun.th[t].pc = "idle"
    /\ parRun' = [parRun EXCEPT !.phase = "idle"]
    /\ UNCHANGED <<progFs, progCommitted, exceptPar>>

----------------------------------------------------------------------------
(* The crawl runners: what they share                                      *)

\* the most entries of a seed source, runs of a runner, workers of a run
MaxSeeds == 2
MaxRuns == 2

\* the most accounts of a crawl
MaxPool == 2

\* batch_logout_every and max_items_per_run go up to these (0: switched off)
MaxBatch == 2
MaxItems == 1

\* the most failures (a failed first login, the limit banner, a page load or a
\* wait for a login by hand that raises) of one crawl
MaxFaults == 2

\* min_tables_required
MinTablesRequired == 7

\* retries of _parse_with_retry
RetryBudget == 2

\* the fleet-pages runner saves no result with fewer tables than this
SkipBelow == 6

\* one page load: it raises, or it yields this many tables
Raises == 0 - 1
NoTables == 0 - 1
TableCounts == (SkipBelow - 1)..MinTablesRequired
Outcomes == {Raises} \cup TableCounts

\* md5_hex(s): different strings, different digests
md5_hex(s) == <<"md5", s>>

\* _node_path(url), _error_path(url), _error_path(url).with_suffix(".skipped.json")
NodePath(url) == <<"ship_", md5_hex(url), ".json">>
ErrorPath(url) == <<"ship_", md5_hex(url), ".error.json">>
SkippedPath(url) == <<"ship_", md5_hex(url), ".error.skipped.json">>

\* the files of out_dir: a ResultNode, an ErrorMarker, a skipped marker
NodeFile(url, tables, origin) ==
    [path |-> NodePath(url), url |-> url, tables |-> tables, origin |-> origin]
ErrorFile(url) == [path |-> ErrorPath(url), url |-> url, tables |-> NoTables, origin |-> ""]
SkippedFile(url, tables) ==
    [path |-> SkippedPath(url), url |-> url, tables |-> tables, origin |-> ""]

\* a path that is never there
ExistsNever(dir, path) == FALSE

(* A variant that counts a node only when it holds a full set of tables. *)
ExistsOnlyFull(dir, path) ==
    \E f \in dir : f.path = path /\ f.tables >= MinTablesRequired

\* Path.exists()
Exists(dir, path) == \E f \in dir : f.path = path

\* open(path, "w") and json.dump: the file is created or replaced
WriteFile(dir, file) == {f \in dir : f.path # file.path} \cup {file}

\* seq[:n]
Take(seq, n) == SubSeq(seq, 1, IF n < Len(seq) THEN n ELSE Len(seq))

\* the elements of seq, each once, in the order of first occurrence
RECURSIVE Uniq(_, _)
Uniq(seq, acc) ==
    IF seq = <<>> THEN acc
    ELSE Uniq(Tail(seq), IF \E i \in 1..Len(acc) : acc[i] = Head(seq)
                         THEN acc ELSE Append(acc, Head(seq)))

\* a _parse_with_retry that returns what the first parse gave
RetryLoopNone(outs, cnt, attempt, minTables, retries) ==
    [raised |-> FALSE, tables |-> cnt, attempts |-> attempt]

\* _parse_with_retry, after the first parse returned cnt tables: the k-th retry
\* is made while the count is short and the budget lasts; a retry that raises
\* ends the loop with the result before it
RECURSIVE RetryLoop(_, _, _, _, _)
RetryLoop(outs, cnt, attempt, minTables, retries) ==
    IF cnt >= minTables \/ attempt >= retries
    THEN [raised |-> FALSE, tables |-> cnt, attempts |-> attempt]
    ELSE IF outs[attempt + 2] = Raises
         THEN [raised |-> FALSE, tables |-> cnt, attempts |-> attempt + 1]
         ELSE RetryLoop(outs, outs[attempt + 2], attempt + 1, minTables, retries)

\* _parse_with_retry(parser, url, min_tables, retries): outs[1] is what the
\* first parse_ship_details does, outs[k + 1] what the k-th retry does
ParseWithRetry(outs, minTables, retries) ==
    IF outs[1] = Raises THEN [raised |-> TRUE, tables |-> NoTables, attempts |-> 0]
    ELSE RetryLoop(outs, outs[1], 0, minTables, retries)

\* what the page loads of one _parse_with_retry can be
FetchOutcomes == [1..(RetryBudget + 1) -> Outcomes]

\* the same for a runner that tells only short results from full ones
ShortOrFull == [1..(RetryBudget + 1) -> {Raises, MinTablesRequired - 1, MinTablesRequired}]

\* what _parse_with_retry can do on these page loads: raise, or return a
\* result with so many tables
ParseResults(outcomes) ==
    {[raised |-> ParseWithRetry(outs, MinTablesRequired, RetryBudget).raised,
      tables |-> ParseWithRetry(outs, MinTablesRequired, RetryBudget).tables] : outs \in outcomes}
RotResults == ParseResults(ShortOrFull)
FleetResults == ParseResults(FetchOutcomes)

NoResult == [raised |-> FALSE, tables |-> NoTables, attempts |-> 0]

\* no call of _parse_with_retry is looked at
RetryIdle ==
    retry = [outs |-> <<>>, minTables |-> 0, retries |-> 0, done |-> FALSE, out |-> NoResult]

\* the calls of _parse_with_retry: the page loads, min_tables, retries
RetryCalls ==
    [outs : FetchOutcomes, minTables : TableCounts, retries : 0..RetryBudget,
     done : {FALSE}, out : {NoResult}]

\* data = self._parse_with_retry(parser, url, min_tables, retries)
ParseCall ==
    /\ ~retry.done
    /\ retry' = [retry EXCEPT !.done = TRUE,
                              !.out = ParseWithRetry(retry.outs, retry.minTables, retry.retries)]
    /\ UNCHANGED exceptRetry

\* account_cursor_file, account_cursor_base
CursorBase == <<"account_cursor", "json">>

\* f".w{wid}"
WidPart(wid) ==
    CASE wid = 0 -> "w0" [] wid = 1 -> "w1" [] wid = 2 -> "w2" [] OTHER -> "w3"

\* _seed_worker_cursors: cursor_base.with_name(stem + f".w{wid}").with_suffix(".json")
SeedCursorPath(base, wid) == WithSuffix(Stem(base) \o <<WidPart(wid)>>, <<"json">>)

\* one cursor file for every worker
WorkerCursorPathNoWid(base, wid) == base

\* _worker: cursor_base.with_name(stem + f".w{wid}.json").with_suffix(".json")
WorkerCursorPath(base, wid) == WithSuffix(Stem(base) \o <<WidPart(wid), "json">>, <<"json">>)

Workers == 0..(MaxWorkers - 1)

CursorNames ==
    {CursorBase} \cup {SeedCursorPath(CursorBase, w) : w \in Workers}
                 \cup {WorkerCursorPath(CursorBase, w) : w \in Workers}

\* what is recorded of a step of a worker
Event(ev, url, idx) == [ev |-> ev, url |-> url, idx |-> idx]

\* what is recorded of one pass of a worker's loop for one URL
NewItem(url) == [url |-> url, fetchOk |-> FALSE, tables |-> NoTables, origin |-> ""]

\* a worker that has not been started
IdleWorker ==
    [pc |-> "off", jobs |-> <<>>, pos |-> 0, tables |-> NoTables, idx |-> 0,
     since |-> 0, saved |-> 0, site |-> "", cursor |-> CursorBase, first |-> NoTables,
     caught |-> 0, trace |-> <<>>, item |-> NewItem(<<>>), found |-> <<>>, stale |-> FALSE,
     logoutFailed |-> FALSE]

\* a worker at its start: its jobs, its cursor file, the index AccountsPool read from it
NewWorker(jobs, cursor, idx) ==
    [IdleWorker EXCEPT !.pc = "start", !.jobs = jobs, !.pos = 1, !.cursor = cursor, !.idx = idx]

\* the record of a run: the paths in out_dir when the pending list was computed,
\* the cursor files then, the URLs whose processing began, whether a file was written
NewRun(dir, cur) ==
    [files0 |-> {f.path : f \in dir}, cursors0 |-> cur, attempts |-> EmptyBag, wrote |-> FALSE,
     links |-> {}, queued |-> {}]

NoRun == [files0 |-> {}, cursors0 |-> [f \in CursorNames |-> NoFile],
          attempts |-> EmptyBag, wrote |-> FALSE, links |-> {}, queued |-> {}]

NoConfig == [runner |-> "none", manual |-> FALSE, batch |-> 0, maxItems |-> 0,
             accounts |-> 0, workers |-> 0, loginWait |-> FALSE]

CrawlIdle ==
    /\ cfg = NoConfig
    /\ seeds = <<>>
    /\ outDir = {}
    /\ cursors = [f \in CursorNames |-> NoFile]
    /\ runNo = 0
    /\ phase = "idle"
    /\ wk = [w \in Workers |-> IdleWorker]
    /\ hist = NoRun
    /\ faults = 0
    /\ queue = <<>>
    /\ seen = {}
    /\ discovered = <<>>
    /\ stop = FALSE

\* whether the next such event is a failure; whether it goes well
Flags == IF faults < MaxFaults THEN BOOLEAN ELSE {FALSE}
Oks == {~fails : fails \in Flags}

\* the results left to a parse: it can raise only while failures are left
Allowed(results) == {res \in results : res.raised => faults < MaxFaults}

\* the worker's record when the pass for its current URL is over: the loop
\* goes to the next URL, and what the pass held is gone
NextJob(r) ==
    [r EXCEPT !.pos = r.pos + 1, !.pc = "loop", !.trace = <<>>, !.item = NewItem(<<>>),
              !.tables = NoTables, !.site = "", !.logoutFailed = FALSE]

\* the worker's record when an exception ends its life
CaughtStops(r) == [NextJob(r) EXCEPT !.caught = r.caught + 1, !.pc = "aborted"]

\* the worker's record when the pass for its current URL ends in the except branch
Caught(r) == NextJob([r EXCEPT !.caught = r.caught + 1])

Logged(r, ev) == [r EXCEPT !.trace = Append(r.trace, Event(ev, r.item.url, r.idx))]

----------------------------------------------------------------------------
(* The rotating ship-details collector: ShipDetailsCollectorManager.run    *)

SHIP1 == HTTP \o <<":", "/", "/", "a", ".", "c", "n", "/", "1">>
SHIP1_ALT == <<"H", "T", "T", "P", ":", "/", "/", "A", ".", "c", "n", ":", "8", "0", "/", "1", "#", "f">>
SHIP2 == HTTP \o <<":", "/", "/", "a", ".", "c", "n", "/", "2">>

\* the entries of the seed source: a URL and the yard it came from ("": none)
SeedEntries ==
    {[url |-> SHIP1, origin |-> "Y1"], [url |-> SHIP1_ALT, origin |-> "Y2"],
     [url |-> <<" ">> \o SHIP2, origin |-> ""]}

SeedLists == UNION {[1..n -> SeedEntries] : n \in 1..MaxSeeds}

SHIP2_ALT == <<"H", "T", "T", "P", ":", "/", "/", "a", ".", "c", "n", "/", "2", "#", "s">>

\* the URLs of the crawls, raw and canonical, and the canonical form of each,
\* computed once
CrawlUrls ==
    {SHIP1, SHIP1_ALT, SHIP2, SHIP2_ALT}
        \cup {canonical(u) : u \in {SHIP1, SHIP1_ALT, SHIP2, SHIP2_ALT}}
CanonicalForms == [u \in CrawlUrls |-> canonical(u)]

\* canonical(u) of the sister-graph crawler
CanonicalOf(u) == IF u \in CrawlUrls THEN CanonicalForms[u] ELSE canonical(u)

\* canonical_url(u): the same code
canonical_url(u) == CanonicalOf(u)

\* _load_urls: the stripped non-empty URLs, each string once, in source order
LoadUrls(src) ==
    Uniq(SelectSeq([i \in 1..Len(src) |-> Strip(src[i].url, Whitespace)],
                   LAMBDA u : u # <<>>), <<>>)

\* self._origin_by_url.get(canonical_url(url)), as add_url filled it
OriginByUrl(src, url) ==
    LET hits == {i \in 1..Len(src) :
                    /\ Strip(src[i].url, Whitespace) # <<>>
                    /\ src[i].origin # ""
                    /\ canonical_url(Strip(src[i].url, Whitespace)) = canonical_url(url)}
    IN  IF hits = {} THEN ""
        ELSE src[CHOOSE i \in hits : \A j \in hits : j <= i].origin

\* urls_pending: the URLs without a node file, cut to max_items_per_run
Pending(urls, dir, maxItems) ==
    LET open == SelectSeq(urls, LAMBDA u : ~Exists(dir, NodePath(u)))
    IN  IF maxItems > 0 THEN Take(open, maxItems) ELSE open

\* run, up to the creation of the driver: with nothing pending it returns
RotStart ==
    /\ cfg.runner = "rot"
    /\ phase = "idle"
    /\ runNo < MaxRuns
    /\ runNo' = runNo + 1
    /\ hist' = NewRun(outDir, cursors)
    /\ LET pending == Pending(LoadUrls(seeds), outDir, cfg.maxItems)
       IN  IF pending = <<>>
           THEN /\ phase' = "idle"
                /\ wk' = [wk EXCEPT ![0] = IdleWorker]
           ELSE /\ phase' = "run"
                /\ wk' = [wk EXCEPT ![0] = NewWorker(pending, CursorBase,
                                              LoadCursor(cursors[CursorBase], cfg.accounts))]
    /\ UNCHANGED <<cfg, seeds, outDir, cursors, faults, queueVars, exceptCrawl>>

\* a first login that always goes on to the next account
RetryLoginAlways(ok) == TRUE

\* if not ok: the next account is tried
RetryLogin(ok) == ~ok

\* the first login: by hand (the wait may raise, which ends run), or with the
\* current account and, if that fails, with the next one
RotFirstLogin ==
    /\ cfg.runner = "rot"
    /\ wk[0].pc = "start"
    /\ LET r == [wk[0] EXCEPT !.first = wk[0].idx, !.pc = "loop"]
       IN  \E ok \in Oks :
             /\ faults' = IF ok THEN faults ELSE faults + 1
             /\ IF cfg.manual
                THEN /\ IF ok
                        THEN /\ wk' = [wk EXCEPT ![0] = Logged(r, "login")]
                             /\ phase' = phase
                        ELSE /\ wk' = [wk EXCEPT ![0] = [r EXCEPT !.pc = "aborted"]]
                             /\ phase' = "idle"
                     /\ UNCHANGED <<cursors, hist>>
                ELSE /\ phase' = phase
                     /\ IF ~RetryLogin(ok)
                        THEN /\ wk' = [wk EXCEPT ![0] = Logged(r, "login")]
                             /\ UNCHANGED <<cursors, hist>>
                        ELSE LET i == NextIndex(r.idx, cfg.accounts)
                             IN  /\ wk' = [wk EXCEPT ![0] =
                                      Logged([Logged(Logged(r, "login"), "advance")
                                                 EXCEPT !.idx = i], "login")]
                                 /\ cursors' = [cursors EXCEPT ![r.cursor] = CursorJson(i)]
                                 /\ hist' = [hist EXCEPT !.wrote = TRUE]
    /\ UNCHANGED <<cfg, seeds, outDir, runNo, queueVars, exceptCrawl>>

\* the top of the loop and the first _parse_with_retry: a URL whose node is
\* there is passed over; a parse that raises leaves an ErrorMarker
RotFetch ==
    /\ cfg.runner = "rot"
    /\ wk[0].pc = "loop"
    /\ wk[0].pos <= Len(wk[0].jobs)
    /\ LET url == wk[0].jobs[wk[0].pos]
       IN  IF Exists(outDir, NodePath(url))
           THEN /\ wk' = [wk EXCEPT ![0].pos = @ + 1]
                /\ UNCHANGED <<outDir, hist, faults>>
           ELSE \E res \in Allowed(RotResults) :
                  LET r == [wk[0] EXCEPT !.item = NewItem(url),
                                         !.trace = <<Event("fetch", url, wk[0].idx)>>]
                  IN  IF res.raised
                      THEN /\ wk' = [wk EXCEPT ![0] = Caught(r)]
                           /\ outDir' = WriteFile(outDir, ErrorFile(url))
                           /\ hist' = [hist EXCEPT !.attempts = @ (+) SetToBag({url}),
                                                   !.wrote = TRUE]
                           /\ faults' = faults + 1
                      ELSE /\ wk' = [wk EXCEPT ![0] =
                                [r EXCEPT !.item.fetchOk = TRUE, !.item.tables = res.tables,
                                          !.tables = res.tables, !.pc = "check"]]
                           /\ outDir' = outDir
                           /\ hist' = [hist EXCEPT !.attempts = @ (+) SetToBag({url})]
                           /\ faults' = faults
    /\ UNCHANGED <<cfg, seeds, cursors, runNo, phase, queueVars, exceptCrawl>>

\* the loop is over: run returns
RotFinish ==
    /\ cfg.runner = "rot"
    /\ wk[0].pc = "loop"
    /\ wk[0].pos > Len(wk[0].jobs)
    /\ wk' = [wk EXCEPT ![0].pc = "done"]
    /\ phase' = "idle"
    /\ UNCHANGED <<cfg, seeds, outDir, cursors, runNo, hist, faults, queueVars, exceptCrawl>>

\* parser.has_daily_limit_banner()
RotBannerCheck ==
    /\ cfg.runner = "rot"
    /\ wk[0].pc = "check"
    /\ \E banner \in Flags :
          /\ faults' = IF banner THEN faults + 1 ELSE faults
          /\ wk' = [wk EXCEPT ![0] =
                       IF banner
                       THEN [Logged(wk[0], "banner") EXCEPT !.pc = "logout", !.site = "banner"]
                       ELSE [wk[0] EXCEPT !.pc = "save"]]
    /\ UNCHANGED <<cfg, seeds, outDir, cursors, runNo, phase, hist, queueVars, exceptCrawl>>

\* the rotation that takes the next account whatever the mode
AfterLogoutNextAccount(manual) == "advance"

\* the rotation that logs in again with the account it had
AfterLogoutSameAccount(manual) == "login"

\* what follows the logout of a rotation: the wait for a login by hand, or next()
AfterLogout(manual) == IF manual THEN "login" ELSE "advance"

\* a rotation that gives up the login when the logout failed
LogoutThenGiveUp(failed, manual) == IF failed THEN "reset" ELSE AfterLogout(manual)

\* _logout_safely swallows what the click raises: the caller goes on the same
\* way whether the logout was done or failed
LogoutThen(failed, manual) == AfterLogout(manual)

\* _logout_safely(driver): the click is done, or it fails; it raises nothing
RotLogout ==
    /\ cfg.runner = "rot"
    /\ wk[0].pc = "logout"
    /\ \E failed \in Flags :
          wk' = [wk EXCEPT ![0] =
                    [Logged(wk[0], "logout") EXCEPT !.pc = LogoutThen(failed, cfg.manual),
                                                    !.logoutFailed = failed]]
    /\ UNCHANGED <<cfg, seeds, outDir, cursors, runNo, phase, hist, faults, queueVars, exceptCrawl>>

\* cur_acc = self._accounts.next()
RotAdvance ==
    /\ cfg.runner = "rot"
    /\ wk[0].pc = "advance"
    /\ LET i == NextIndex(wk[0].idx, cfg.accounts)
       IN  /\ wk' = [wk EXCEPT ![0] = [Logged(wk[0], "advance") EXCEPT !.idx = i, !.pc = "login"]]
           /\ cursors' = [cursors EXCEPT ![wk[0].cursor] = CursorJson(i)]
    /\ hist' = [hist EXCEPT !.wrote = TRUE]
    /\ UNCHANGED <<cfg, seeds, outDir, runNo, phase, faults, queueVars, exceptCrawl>>

\* _login_manually (it may raise: the except branch of the loop) or
\* _login_automatically (it raises nothing, its result is not looked at)
RotLogin ==
    /\ cfg.runner = "rot"
    /\ wk[0].pc = "login"
    /\ \E raises \in Flags :
          IF cfg.manual /\ raises
          THEN /\ wk' = [wk EXCEPT ![0] = Caught(wk[0])]
               /\ outDir' = WriteFile(outDir, ErrorFile(wk[0].item.url))
               /\ hist' = [hist EXCEPT !.wrote = TRUE]
               /\ faults' = faults + 1
          ELSE /\ wk' = [wk EXCEPT ![0] = [Logged(wk[0], "login") EXCEPT !.pc = "reset"]]
               /\ UNCHANGED <<outDir, hist, faults>>
    /\ UNCHANGED <<cfg, seeds, cursors, runNo, phase, queueVars, exceptCrawl>>

\* processed_since_login = 0; after a banner the URL is parsed again, after a
\* thin result or a full batch the loop goes on
RotReset ==
    /\ cfg.runner = "rot"
    /\ wk[0].pc = "reset"
    /\ LET r == [Logged(wk[0], "reset") EXCEPT !.since = 0]
       IN  wk' = [wk EXCEPT ![0] =
                     IF r.site = "banner" THEN [r EXCEPT !.pc = "refetch"] ELSE NextJob(r)]
    /\ UNCHANGED <<cfg, seeds, outDir, cursors, runNo, phase, hist, faults, queueVars, exceptCrawl>>

\* a second parse whose result is looked at for the banner as the first was
AfterRefetchCheckAgain(tables) == "check"

\* what follows the second parse: its result is saved, the banner is not
\* looked for again
AfterRefetch(tables) == "save"

\* the second _parse_with_retry of the URL, after the relogin
RotRefetch ==
    /\ cfg.runner = "rot"
    /\ wk[0].pc = "refetch"
    /\ \E res \in Allowed(RotResults) :
          LET r == Logged(wk[0], "fetch")
          IN  IF res.raised
              THEN /\ wk' = [wk EXCEPT ![0] = Caught(r)]
                   /\ outDir' = WriteFile(outDir, ErrorFile(r.item.url))
                   /\ hist' = [hist EXCEPT !.wrote = TRUE]
                   /\ faults' = faults + 1
              ELSE /\ wk' = [wk EXCEPT ![0] =
                        [r EXCEPT !.item.tables = res.tables, !.tables = res.tables, !.pc = AfterRefetch(res.tables)]]
                   /\ UNCHANGED <<outDir, hist, faults>>
    /\ UNCHANGED <<cfg, seeds, cursors, runNo, phase, queueVars, exceptCrawl>>

\* origin_yard is attached, the node is written, the counters go up; then a
\* thin result, or a full batch, starts a rotation
RotSave ==
    /\ cfg.runner = "rot"
    /\ wk[0].pc = "save"
    /\ LET url == wk[0].item.url
           r == [Logged(wk[0], "save") EXCEPT !.saved = @ + 1, !.since = @ + 1]
       IN  /\ outDir' = WriteFile(outDir, NodeFile(url, r.tables, OriginByUrl(seeds, url)))
           /\ wk' = [wk EXCEPT ![0] =
                        IF r.tables < MinTablesRequired
                        THEN [r EXCEPT !.pc = "logout", !.site = "thin"]
                        ELSE IF cfg.batch > 0 /\ r.since >= cfg.batch
                        THEN [r EXCEPT !.pc = "logout", !.site = "batch"]
                        ELSE NextJob(r)]
    /\ hist' = [hist EXCEPT !.wrote = TRUE]
    /\ UNCHANGED <<cfg, seeds, cursors, runNo, phase, faults, queueVars, exceptCrawl>>

NextRot ==
    \/ RotStart \/ RotFirstLogin \/ RotFetch \/ RotFinish \/ RotBannerCheck \/ RotLogout
    \/ RotAdvance \/ RotLogin \/ RotReset \/ RotRefetch \/ RotSave

\* the configurations of the rotating collector
RotConfigs ==
    [runner : {"rot"}, manual : BOOLEAN, batch : 0..MaxBatch, maxItems : 0..MaxItems,
     accounts : 1..MaxPool, workers : {1}, loginWait : {FALSE}]

\* the cursor files a run can find
CursorFiles0 == {NoFile, CursorJson(MaxPool - 1)}

----------------------------------------------------------------------------
(* The fleet-pages runner: FleetPagesShipDetailsParallelRunner.run         *)

\* _load_tasks: the stripped non-empty links, each string once, in row order
LoadTasks(rows) ==
    Uniq(SelectSeq([i \in 1..Len(rows) |-> Strip(rows[i].url, Whitespace)],
                   LAMBDA u : u # <<>>), <<>>)

\* base_index of _seed_worker_cursors: the index of the base file modulo the
\* number of accounts, 0 when the file gives none
BaseIndex(file, n) == IF file.kind = "json" THEN file.index % n ELSE 0

\* the loop of _seed_worker_cursors from worker wid on: a file that is there is
\* kept, one that is not is written with (base_index + wid) % n
RECURSIVE SeedWorkerCursors(_, _, _, _, _)
SeedWorkerCursors(cur, wid, workers, baseIndex, n) ==
    IF wid >= workers THEN cur
    ELSE SeedWorkerCursors(
            IF cur[SeedCursorPath(CursorBase, wid)] # NoFile THEN cur
            ELSE [cur EXCEPT ![SeedCursorPath(CursorBase, wid)] = CursorJson((baseIndex + wid) % n)],
            wid + 1, workers, baseIndex, n)

\* a split of the pending tasks into W runs of neighbours
ChunkBlocks(pending, w, workers) ==
    LET size == (Len(pending) + workers - 1) \div workers
    IN  SubSeq(pending, w * size + 1,
               IF (w + 1) * size < Len(pending) THEN (w + 1) * size ELSE Len(pending))

\* chunks[w]: the pending tasks at the positions i with i % W = w, counted from 0
Chunk(pending, w, workers) ==
    LET at == {i \in 1..Len(pending) : (i - 1) % workers = w}
        RECURSIVE pick(_)
        pick(i) == IF i > Len(pending) THEN <<>>
                   ELSE IF i \in at THEN <<pending[i]>> \o pick(i + 1) ELSE pick(i + 1)
    IN  pick(1)

\* run, up to the start of the threads: the tasks are cut to max_items_per_run,
\* those with a node are dropped, and with nothing pending run returns; else the
\* cursors are seeded and the pending tasks dealt out to the workers
FleetStart ==
    /\ cfg.runner = "fleet"
    /\ phase = "idle"
    /\ runNo < MaxRuns
    /\ runNo' = runNo + 1
    /\ LET tasks == LoadTasks(seeds)
           cut == IF cfg.maxItems > 0 THEN Take(tasks, cfg.maxItems) ELSE tasks
           pending == SelectSeq(cut, LAMBDA u : ~Exists(outDir, NodePath(u)))
           seeded == SeedWorkerCursors(cursors, 0, cfg.workers,
                                       BaseIndex(cursors[CursorBase], cfg.accounts), cfg.accounts)
       IN  IF pending = <<>>
           THEN /\ phase' = "idle"
                /\ wk' = [w \in Workers |-> IdleWorker]
                /\ cursors' = cursors
                /\ hist' = NewRun(outDir, cursors)
           ELSE /\ phase' = "run"
                /\ wk' = [w \in Workers |->
                            IF w < cfg.workers
                            THEN NewWorker(Chunk(pending, w, cfg.workers),
                                           WorkerCursorPath(CursorBase, w), 0)
                            ELSE IdleWorker]
                /\ cursors' = seeded
                /\ hist' = [NewRun(outDir, cursors) EXCEPT !.wrote = seeded # cursors]
    /\ UNCHANGED <<cfg, seeds, outDir, faults, queueVars, exceptCrawl>>

\* _worker, up to the loop: the pool is opened on the worker's cursor file; the
\* first login is by hand (opening the login page may raise, which ends the
\* worker), or with the current account and, if that fails, with the next one
FleetFirstLogin(w) ==
    /\ cfg.runner = "fleet"
    /\ wk[w].pc = "start"
    /\ LET idx0 == LoadCursor(cursors[wk[w].cursor], cfg.accounts)
           r == [wk[w] EXCEPT !.idx = idx0, !.first = idx0, !.pc = "loop"]
       IN  \E ok \in Oks :
             /\ faults' = IF ok THEN faults ELSE faults + 1
             /\ IF cfg.manual
                THEN /\ wk' = [wk EXCEPT ![w] =
                                 IF ok THEN Logged(r, "login") ELSE [r EXCEPT !.pc = "aborted"]]
                     /\ UNCHANGED <<cursors, hist>>
                ELSE IF ~RetryLogin(ok)
                     THEN /\ wk' = [wk EXCEPT ![w] = Logged(r, "login")]
                          /\ UNCHANGED <<cursors, hist>>
                     ELSE LET i == NextIndex(r.idx, cfg.accounts)
                          IN  /\ wk' = [wk EXCEPT ![w] =
                                   Logged([Logged(Logged(r, "login"), "advance")
                                              EXCEPT !.idx = i], "login")]
                              /\ cursors' = [cursors EXCEPT ![r.cursor] = CursorJson(i)]
                              /\ hist' = [hist EXCEPT !.wrote = TRUE]
    /\ UNCHANGED <<cfg, seeds, outDir, runNo, phase, queueVars, exceptCrawl>>

\* the top of the loop, the first _parse_with_retry and has_daily_limit_banner:
\* a task whose node is there is passed over; a parse that raises leaves an
\* ErrorMarker
FleetFetch(w) ==
    /\ cfg.runner = "fleet"
    /\ wk[w].pc = "loop"
    /\ wk[w].pos <= Len(wk[w].jobs)
    /\ LET url == wk[w].jobs[wk[w].pos]
       IN  IF Exists(outDir, NodePath(url))
           THEN /\ wk' = [wk EXCEPT ![w].pos = @ + 1]
                /\ UNCHANGED <<outDir, hist, faults>>
           ELSE \E res \in Allowed(FleetResults), banner \in Flags :
                  LET r == [wk[w] EXCEPT !.item = NewItem(url),
                                         !.trace = <<Event("fetch", url, wk[w].idx)>>]
                      got == [r EXCEPT !.item.fetchOk = TRUE, !.item.tables = res.tables,
                                       !.tables = res.tables]
                  IN  IF res.raised
                      THEN /\ wk' = [wk EXCEPT ![w] = Caught(r)]
                           /\ outDir' = WriteFile(outDir, ErrorFile(url))
                           /\ hist' = [hist EXCEPT !.attempts = @ (+) SetToBag({url}),
                                                   !.wrote = TRUE]
                           /\ faults' = faults + 1
                      ELSE /\ wk' = [wk EXCEPT ![w] =
                                IF banner
                                THEN [Logged(got, "banner") EXCEPT !.pc = "banner", !.site = "banner"]
                                ELSE [got EXCEPT !.pc = "count"]]
                           /\ outDir' = outDir
                           /\ hist' = [hist EXCEPT !.attempts = @ (+) SetToBag({url})]
                           /\ faults' = IF banner THEN faults + 1 ELSE faults
    /\ UNCHANGED <<cfg, seeds, cursors, runNo, phase, queueVars, exceptCrawl>>

\* a rotation of the fleet worker that raises nothing: _logout_safely, then the
\* login page by hand or next() and _login_automatically, then since_login = 0
FleetRelogin(r, manual, n) ==
    IF AfterLogout(manual) = "login"
    THEN [Logged(Logged(Logged(r, "logout"), "login"), "reset") EXCEPT !.since = 0]
    ELSE [Logged(Logged([Logged(Logged(r, "logout"), "advance")
                            EXCEPT !.idx = NextIndex(r.idx, n)], "login"), "reset")
            EXCEPT !.since = 0]

\* the cursor files after the rotation that took the worker from r to s
CursorsAfter(cur, r, s, manual) ==
    IF AfterLogout(manual) = "login" THEN cur ELSE [cur EXCEPT ![r.cursor] = CursorJson(s.idx)]

\* after the banner: the rotation (opening the login page by hand may raise)
FleetBannerRotate(w) ==
    /\ cfg.runner = "fleet"
    /\ wk[w].pc = "banner"
    /\ \E raises \in Flags :
          LET s == FleetRelogin(wk[w], cfg.manual, cfg.accounts)
          IN  IF cfg.manual /\ raises
              THEN /\ wk' = [wk EXCEPT ![w] = Caught(Logged(wk[w], "logout"))]
                   /\ outDir' = WriteFile(outDir, ErrorFile(wk[w].item.url))
                   /\ cursors' = cursors
                   /\ hist' = [hist EXCEPT !.wrote = TRUE]
                   /\ faults' = faults + 1
              ELSE /\ wk' = [wk EXCEPT ![w] = [s EXCEPT !.pc = "refetch"]]
                   /\ outDir' = outDir
                   /\ cursors' = CursorsAfter(cursors, wk[w], s, cfg.manual)
                   /\ hist' = [hist EXCEPT !.wrote = (@ \/ ~cfg.manual)]
                   /\ faults' = faults
    /\ UNCHANGED <<cfg, seeds, runNo, phase, queueVars, exceptCrawl>>

\* the second _parse_with_retry of the task, after the relogin
FleetRefetch(w) ==
    /\ cfg.runner = "fleet"
    /\ wk[w].pc = "refetch"
    /\ \E res \in Allowed(FleetResults) :
          LET r == Logged(wk[w], "fetch")
          IN  IF res.raised
              THEN /\ wk' = [wk EXCEPT ![w] = Caught(r)]
                   /\ outDir' = WriteFile(outDir, ErrorFile(r.item.url))
                   /\ hist' = [hist EXCEPT !.wrote = TRUE]
                   /\ faults' = faults + 1
              ELSE /\ wk' = [wk EXCEPT ![w] =
                        [r EXCEPT !.item.tables = res.tables, !.tables = res.tables, !.pc = "count"]]
                   /\ UNCHANGED <<outDir, hist, faults>>
    /\ UNCHANGED <<cfg, seeds, cursors, runNo, phase, queueVars, exceptCrawl>>

\* saved and since_login go up; a result of fewer than 6 tables gets a skipped
\* marker and no node; a full batch starts a rotation (opening the login page
\* by hand may raise) before the node is written
FleetCount(w) ==
    /\ cfg.runner = "fleet"
    /\ wk[w].pc = "count"
    /\ LET r == [wk[w] EXCEPT !.saved = @ + 1, !.since = @ + 1]
           s == FleetRelogin([r EXCEPT !.site = "batch"], cfg.manual, cfg.accounts)
       IN  IF r.tables < SkipBelow
           THEN /\ wk' = [wk EXCEPT ![w] = NextJob(r)]
                /\ outDir' = WriteFile(outDir, SkippedFile(r.item.url, r.tables))
                /\ hist' = [hist EXCEPT !.wrote = TRUE]
                /\ UNCHANGED <<cursors, faults>>
           ELSE IF cfg.batch > 0 /\ r.since >= cfg.batch
           THEN \E raises \in Flags :
                  IF cfg.manual /\ raises
                  THEN /\ wk' = [wk EXCEPT ![w] =
                                   Caught(Logged([r EXCEPT !.site = "batch"], "logout"))]
                       /\ outDir' = WriteFile(outDir, ErrorFile(r.item.url))
                       /\ hist' = [hist EXCEPT !.wrote = TRUE]
                       /\ cursors' = cursors
                       /\ faults' = faults + 1
                  ELSE /\ wk' = [wk EXCEPT ![w] = [s EXCEPT !.pc = "write"]]
                       /\ outDir' = outDir
                       /\ cursors' = CursorsAfter(cursors, r, s, cfg.manual)
                       /\ hist' = [hist EXCEPT !.wrote = (@ \/ ~cfg.manual)]
                       /\ faults' = faults
           ELSE /\ wk' = [wk EXCEPT ![w] = [r EXCEPT !.pc = "write"]]
                /\ UNCHANGED <<outDir, cursors, hist, faults>>
    /\ UNCHANGED <<cfg, seeds, runNo, phase, queueVars, exceptCrawl>>

\* from_fleet is attached, the node is written, saved and since_login go up again
FleetWrite(w) ==
    /\ cfg.runner = "fleet"
    /\ wk[w].pc = "write"
    /\ wk' = [wk EXCEPT ![w] =
                 NextJob([Logged(wk[w], "save") EXCEPT !.saved = @ + 1, !.since = @ + 1])]
    /\ outDir' = WriteFile(outDir, NodeFile(wk[w].item.url, wk[w].tables, ""))
    /\ hist' = [hist EXCEPT !.wrote = TRUE]
    /\ UNCHANGED <<cfg, seeds, cursors, runNo, phase, faults, queueVars, exceptCrawl>>

\* the loop of the worker is over: _worker returns
FleetWorkerReturn(w) ==
    /\ cfg.runner = "fleet"
    /\ wk[w].pc = "loop"
    /\ wk[w].pos > Len(wk[w].jobs)
    /\ wk' = [wk EXCEPT ![w].pc = "done"]
    /\ UNCHANGED <<cfg, seeds, outDir, cursors, runNo, phase, hist, faults, queueVars, exceptCrawl>>

\* every future is completed: run returns
FleetFinish ==
    /\ cfg.runner = "fleet"
    /\ phase = "run"
    /\ \A w \in Workers : wk[w].pc \in {"off", "done", "aborted"}
    /\ phase' = "idle"
    /\ UNCHANGED <<cfg, seeds, outDir, cursors, runNo, wk, hist, faults, queueVars, exceptCrawl>>

NextFleet ==
    \/ FleetStart
    \/ \E w \in Workers : FleetFirstLogin(w)
    \/ \E w \in Workers : FleetFetch(w)
    \/ \E w \in Workers : FleetBannerRotate(w)
    \/ \E w \in Workers : FleetRefetch(w)
    \/ \E w \in Workers : FleetCount(w)
    \/ \E w \in Workers : FleetWrite(w)
    \/ \E w \in Workers : FleetWorkerReturn(w)
    \/ FleetFinish

\* the rows of the fleet pages: their links
FleetRows == {[url |-> SHIP1, origin |-> ""], [url |-> <<" ">> \o SHIP2, origin |-> ""]}
FleetRowLists == [1..MaxSeeds -> FleetRows]

\* fleet pages with more rows than workers
MaxShardRows == 3
SHIP3 == HTTP \o <<":", "/", "/", "a", ".", "c", "n", "/", "3">>
ShardRows == FleetRows \cup {[url |-> SHIP3, origin |-> ""]}
ShardRowLists == [1..MaxShardRows -> ShardRows]
ShardConfigs ==
    [runner : {"fleet"}, manual : {FALSE}, batch : {0}, maxItems : {0},
     accounts : {MaxPool}, workers : 1..MaxWorkers, loginWait : {FALSE}]

\* the configurations of the fleet-pages runner
FleetConfigs ==
    [runner : {"fleet"}, manual : BOOLEAN, batch : {0, MaxBatch}, maxItems : 0..MaxItems,
     accounts : {MaxPool}, workers : 1..MaxWorkers, loginWait : {FALSE}]

\* the cursor files a run of the fleet-pages runner can find: none, or the
\* base file and the file of the last worker
FleetCursors0 ==
    {[f \in CursorNames |-> NoFile],
     [f \in CursorNames |->
        IF f = CursorBase THEN CursorJson(MaxPool - 1)
        ELSE IF f = WorkerCursorPath(CursorBase, MaxWorkers - 1) THEN CursorJson(MaxPool - 1)
        ELSE NoFile]}

----------------------------------------------------------------------------
(* The guarded ship-details collector: ShipDetailsCollectorManager.run of  *)
(* guarded_ship_details_collector.py                                       *)

\* max_items_per_run = None
Unset == 0 - 1

\* _load_urls of the guarded collector: the stripped non-empty URLs, each
\* string once, in source order
GuardLoadUrls(src) ==
    Uniq(SelectSeq([i \in 1..Len(src) |-> Strip(src[i].url, Whitespace)],
                   LAMBDA u : u # <<>>), <<>>)

\* what one parse_ship_details can do: raise, or return a short or a full result
PageResults ==
    {[raised |-> TRUE, tables |-> NoTables]}
        \cup {[raised |-> FALSE, tables |-> t] : t \in {MinTablesRequired - 1, MinTablesRequired}}

\* the worker's record when a thread is through with the URL it took
NextTask(r) ==
    [r EXCEPT !.pc = "take", !.trace = <<>>, !.item = NewItem(<<>>), !.tables = NoTables,
              !.stale = FALSE]

\* run of a new manager, up to the start of the work: the URLs without a node,
\* cut to max_items_per_run; with nothing pending it returns; with a login wait
\* one driver takes them in order, else they are queued for the threads
GuardStart ==
    /\ cfg.runner = "guard"
    /\ phase = "idle"
    /\ runNo < MaxRuns
    /\ runNo' = runNo + 1
    /\ hist' = NewRun(outDir, cursors)
    /\ stop' = FALSE
    /\ LET open == SelectSeq(GuardLoadUrls(seeds), LAMBDA u : ~Exists(outDir, NodePath(u)))
           pending == IF cfg.maxItems # Unset THEN Take(open, cfg.maxItems) ELSE open
       IN  IF pending = <<>>
           THEN /\ phase' = "idle"
                /\ wk' = [w \in Workers |-> IdleWorker]
                /\ queue' = <<>>
           ELSE /\ phase' = "run"
                /\ IF cfg.loginWait
                   THEN /\ wk' = [w \in Workers |->
                                    IF w = 0 THEN NewWorker(pending, CursorBase, 0) ELSE IdleWorker]
                        /\ queue' = <<>>
                   ELSE /\ wk' = [w \in Workers |->
                                    IF w < cfg.workers
                                    THEN [NewWorker(<<>>, CursorBase, 0) EXCEPT !.pc = "take"]
                                    ELSE IdleWorker]
                        /\ queue' = [i \in 1..Len(pending) |-> [url |-> pending[i], origin |-> ""]]
    /\ UNCHANGED <<cfg, seeds, outDir, cursors, faults, seen, discovered, exceptCrawl>>

\* _run_single_driver_sequential, up to the loop: the first pending URL is
\* opened for the login, and if that raises the fallback page, which may raise
\* too and end run
GuardSeqOpen ==
    /\ cfg.runner = "guard"
    /\ wk[0].pc = "start"
    /\ \E fails \in Flags :
          /\ faults' = IF fails THEN faults + 1 ELSE faults
          /\ wk' = [wk EXCEPT ![0].pc = IF fails THEN "aborted" ELSE "loop"]
          /\ phase' = IF fails THEN "idle" ELSE phase
    /\ UNCHANGED <<cfg, seeds, outDir, cursors, runNo, hist, queueVars, exceptCrawl>>

\* one pass of the sequential loop: it ends at a set stop flag; a URL whose
\* node is there is passed over; else the page is parsed and the node written;
\* a thin result logs out, sets the stop flag and ends the loop; a full batch
\* logs out and waits for the next login; an exception leaves an ErrorMarker
GuardSeqPass ==
    /\ cfg.runner = "guard"
    /\ wk[0].pc = "loop"
    /\ wk[0].pos <= Len(wk[0].jobs)
    /\ LET url == wk[0].jobs[wk[0].pos]
           r == [wk[0] EXCEPT !.saved = @ + 1, !.since = @ + 1]
       IN  IF stop
           THEN /\ wk' = [wk EXCEPT ![0].pc = "done"]
                /\ phase' = "idle"
                /\ UNCHANGED <<outDir, hist, faults, stop>>
           ELSE IF Exists(outDir, NodePath(url))
           THEN /\ wk' = [wk EXCEPT ![0].pos = @ + 1]
                /\ UNCHANGED <<outDir, hist, faults, stop, phase>>
           ELSE \E res \in Allowed(PageResults) :
                  /\ hist' = [hist EXCEPT !.attempts = @ (+) SetToBag({url}), !.wrote = TRUE]
                  /\ IF res.raised
                     THEN /\ wk' = [wk EXCEPT ![0] = Caught(wk[0])]
                          /\ outDir' = WriteFile(outDir, ErrorFile(url))
                          /\ faults' = faults + 1
                          /\ UNCHANGED <<stop, phase>>
                     ELSE /\ outDir' = WriteFile(outDir, NodeFile(url, res.tables, ""))
                          /\ faults' = faults
                          /\ IF res.tables < MinTablesRequired
                             THEN /\ wk' = [wk EXCEPT ![0] = [r EXCEPT !.pc = "done"]]
                                  /\ stop' = TRUE
                                  /\ phase' = "idle"
                             ELSE /\ wk' = [wk EXCEPT ![0] =
                                       IF cfg.batch > 0 /\ r.since >= cfg.batch
                                       THEN NextJob([r EXCEPT !.since = 0])
                                       ELSE NextJob(r)]
                                  /\ UNCHANGED <<stop, phase>>
    /\ UNCHANGED <<cfg, seeds, cursors, runNo, queue, seen, discovered, exceptCrawl>>

\* the sequential loop is over: run returns
GuardSeqFinish ==
    /\ cfg.runner = "guard"
    /\ wk[0].pc = "loop"
    /\ wk[0].pos > Len(wk[0].jobs)
    /\ wk' = [wk EXCEPT ![0].pc = "done"]
    /\ phase' = "idle"
    /\ UNCHANGED <<cfg, seeds, outDir, cursors, runNo, hist, faults, queueVars, exceptCrawl>>

\* _worker, the head of the loop: a set stop flag ends the thread
GuardTake(w) ==
    /\ cfg.runner = "guard"
    /\ wk[w].pc = "take"
    /\ wk' = [wk EXCEPT ![w].pc = IF stop THEN "done" ELSE "get"]
    /\ UNCHANGED <<cfg, seeds, outDir, cursors, runNo, phase, hist, faults, queueVars, exceptCrawl>>

\* self._q.get(timeout=1.5): the next URL of the queue; an empty queue ends the
\* thread (nothing is put on the queue once the threads run)
GuardGet(w) ==
    /\ cfg.runner = "guard"
    /\ wk[w].pc = "get"
    /\ IF queue = <<>>
       THEN /\ wk' = [wk EXCEPT ![w].pc = "done"]
            /\ queue' = queue
       ELSE /\ wk' = [wk EXCEPT ![w] = [wk[w] EXCEPT !.pc = "got", !.stale = stop,
                                                     !.item = NewItem(Head(queue).url)]]
            /\ queue' = Tail(queue)
    /\ UNCHANGED <<cfg, seeds, outDir, cursors, runNo, phase, hist, faults, seen, discovered,
                   stop, exceptCrawl>>

\* a thread that goes on to parse whatever it took
AfterGetNoRecheck(r, flag) == [r EXCEPT !.pc = "parse"]

\* if self._stop_event.is_set(): task_done and break; else the URL is parsed
AfterGet(r, flag) == IF flag THEN [NextTask(r) EXCEPT !.pc = "done"] ELSE [r EXCEPT !.pc = "parse"]

\* the stop flag is looked at again: set, the URL is dropped and the thread ends
GuardCheck(w) ==
    /\ cfg.runner = "guard"
    /\ wk[w].pc = "got"
    /\ wk' = [wk EXCEPT ![w] = AfterGet(wk[w], stop)]
    /\ UNCHANGED <<cfg, seeds, outDir, cursors, runNo, phase, hist, faults, queueVars, exceptCrawl>>

\* the loop of get_nowait and task_done of the thread that set the stop flag:
\* one URL is taken off the queue; an empty queue ends the loop and the thread
GuardPurge(w) ==
    /\ cfg.runner = "guard"
    /\ wk[w].pc = "purge"
    /\ IF queue = <<>>
       THEN /\ wk' = [wk EXCEPT ![w].pc = "done"]
            /\ queue' = queue
       ELSE /\ wk' = wk
            /\ queue' = Tail(queue)
    /\ UNCHANGED <<cfg, seeds, outDir, cursors, runNo, phase, hist, faults, seen, discovered,
                   stop, exceptCrawl>>

\* the page is parsed and the node written; a thin result logs out, sets the
\* stop flag and goes on to empty the queue; an exception leaves an ErrorMarker
GuardParse(w) ==
    /\ cfg.runner = "guard"
    /\ wk[w].pc = "parse"
    /\ \E res \in Allowed(PageResults) :
          LET url == wk[w].item.url
          IN  /\ hist' = [hist EXCEPT !.attempts = @ (+) SetToBag({url}), !.wrote = TRUE]
              /\ IF res.raised
                 THEN /\ wk' = [wk EXCEPT ![w] = NextTask([wk[w] EXCEPT !.caught = @ + 1])]
                      /\ outDir' = WriteFile(outDir, ErrorFile(url))
                      /\ faults' = faults + 1
                      /\ stop' = stop
                 ELSE /\ outDir' = WriteFile(outDir, NodeFile(url, res.tables, ""))
                      /\ faults' = faults
                      /\ IF res.tables < MinTablesRequired
                         THEN /\ wk' = [wk EXCEPT ![w] =
                                   [NextTask([wk[w] EXCEPT !.saved = @ + 1]) EXCEPT !.pc = "purge"]]
                              /\ stop' = TRUE
                         ELSE /\ wk' = [wk EXCEPT ![w] = NextTask([wk[w] EXCEPT !.saved = @ + 1])]
                              /\ stop' = stop
    /\ UNCHANGED <<cfg, seeds, cursors, runNo, phase, queue, seen, discovered, exceptCrawl>>

\* every thread is joined: run returns
GuardFinish ==
    /\ cfg.runner = "guard"
    /\ phase = "run"
    /\ ~cfg.loginWait
    /\ \A w \in Workers : wk[w].pc \in {"off", "done"}
    /\ phase' = "idle"
    /\ UNCHANGED <<cfg, seeds, outDir, cursors, runNo, wk, hist, faults, queueVars, exceptCrawl>>

NextGuard ==
    \/ GuardStart \/ GuardSeqOpen \/ GuardSeqPass \/ GuardSeqFinish
    \/ \E w \in Workers : GuardTake(w)
    \/ \E w \in Workers : GuardGet(w)
    \/ \E w \in Workers : GuardCheck(w)
    \/ \E w \in Workers : GuardParse(w)
    \/ \E w \in Workers : GuardPurge(w)
    \/ GuardFinish

\* the configurations of the guarded collector
GuardConfigs ==
    [runner : {"guard"}, manual : {FALSE}, batch : {0, 1}, maxItems : {Unset, 0, MaxItems},
     accounts : {0}, workers : 1..MaxWorkers, loginWait : BOOLEAN]

----------------------------------------------------------------------------
(* The sister-graph crawler: SisterGraphCrawler.run                        *)

\* the characters of the URLs, by code point
AsciiOrder ==
    <<" ", "#", ".", "/", "0", "1", "2", "3", "4", "5", "6", "7", "8", "9", ":", "?",
      "A", "B", "C", "D", "E", "F", "G", "H", "I", "J", "K", "L", "M", "N", "O", "P", "Q",
      "R", "S", "T", "U", "V", "W", "X", "Y", "Z", "a", "b", "c", "d", "e", "f", "g", "h",
      "i", "j", "k", "l", "m", "n", "o", "p", "q", "r", "s", "t", "u", "v", "w", "x", "y",
      "z">>
CodePoint(c) == CHOOSE i \in 1..Len(AsciiOrder) : AsciiOrder[i] = c

\* s < t, as Python compares strings
RECURSIVE Less(_, _)
Less(s, t) ==
    IF t = <<>> THEN FALSE
    ELSE IF s = <<>> THEN TRUE
    ELSE IF Head(s) = Head(t) THEN Less(Tail(s), Tail(t))
    ELSE CodePoint(Head(s)) < CodePoint(Head(t))

\* sorted(keys)
RECURSIVE Sorted(_)
Sorted(keys) ==
    IF keys = {} THEN <<>>
    ELSE Let(CHOOSE k \in keys : \A other \in keys \ {k} : Less(k, other),
             LAMBDA k : <<k>> \o Sorted(keys \ {k}))

\* canonical((r.get("link") or "").strip()) of the rows, in file order
SeedKeys(rows) == [i \in 1..Len(rows) |-> CanonicalOf(Strip(rows[i].url, Whitespace))]

\* _load_seed_items: the canonical URLs of the rows, sorted, each with the yard
\* of the first row that has it
LoadSeedItems(rows) ==
    Let(SeedKeys(rows),
        LAMBDA keys :
            Let(Sorted({keys[i] : i \in 1..Len(keys)} \ {<<>>}),
                LAMBDA order :
                    [k \in 1..Len(order) |->
                        [url |-> order[k],
                         origin |-> rows[CHOOSE i \in 1..Len(rows) :
                                            /\ keys[i] = order[k]
                                            /\ \A j \in 1..(i - 1) : keys[j] # order[k]].origin]]))

\* __init__: the canonical URLs of the files ship_*.json of out_nodes_dir
SeenOnDisk(dir) == {CanonicalOf(f.url) : f \in dir} \ {<<>>}

\* the loop of _worker over the links of the sister table: a link with a node
\* is marked seen; one that is not seen is queued and noted for the log
RECURSIVE ScanSisters(_, _, _)
ScanSisters(links, dir, acc) ==
    IF links = <<>> THEN acc
    ELSE Let(CanonicalOf(Strip(Head(links), Whitespace)),
             LAMBDA u :
                ScanSisters(Tail(links), dir,
                    IF u = <<>> THEN acc
                    ELSE IF Exists(dir, NodePath(u)) THEN [acc EXCEPT !.seen = @ \cup {u}]
                    ELSE IF u \notin acc.seen THEN [acc EXCEPT !.found = Append(@, u)]
                    ELSE acc))

\* the canonical URLs of the links of a sister table
LinkKeys(links) == {CanonicalOf(Strip(links[i], Whitespace)) : i \in 1..Len(links)} \ {<<>>}

\* what parse_sisters can return: the links of the sister table
SisterLists == {<<>>, <<SHIP2, SHIP2_ALT>>}

\* what parse_sisters can do: raise, or return a list of links
SisterResults ==
    {[raised |-> TRUE, links |-> <<>>]} \cup {[raised |-> FALSE, links |-> l] : l \in SisterLists}

\* run of a new crawler, up to the start of the threads: the seeds without a
\* node are queued, those with one are marked seen; with nothing queued it returns
SisterStart ==
    /\ cfg.runner = "sister"
    /\ phase = "idle"
    /\ runNo < MaxRuns
    /\ runNo' = runNo + 1
    /\ LET items == LoadSeedItems(seeds)
           todo == SelectSeq(items, LAMBDA it : ~Exists(outDir, NodePath(it.url)))
           have == {items[i].url : i \in {j \in 1..Len(items) : Exists(outDir, NodePath(items[j].url))}}
       IN  /\ seen' = SeenOnDisk(outDir) \cup {CanonicalOf(u) : u \in have}
           /\ queue' = todo
           /\ hist' = [NewRun(outDir, cursors) EXCEPT !.queued = {todo[i].url : i \in 1..Len(todo)}]
           /\ IF todo = <<>>
              THEN /\ phase' = "idle"
                   /\ wk' = [w \in Workers |-> IdleWorker]
              ELSE /\ phase' = "run"
                   /\ wk' = [w \in Workers |->
                               IF w < cfg.workers
                               THEN [NewWorker(<<>>, CursorBase, 0) EXCEPT !.pc = "take"]
                               ELSE IdleWorker]
    /\ UNCHANGED <<cfg, seeds, outDir, cursors, faults, discovered, stop, exceptCrawl>>

\* a thread that ends when it is through with the task it took
SisterNextTaskEnds(r) == [NextTask(r) EXCEPT !.pc = "done"]

\* finally: task_done(), and `while True` goes back to its get
SisterNextTask(r) == NextTask(r)

\* a get() with no timeout: the thread waits at the empty queue
OnEmptyWait(q) == "take"

\* self._queue.get(timeout=1.5) on an empty queue raises Empty: break
OnEmpty(q) == "done"

\* _worker: the next task is taken from the queue; an empty queue ends the thread
SisterTake(w) ==
    /\ cfg.runner = "sister"
    /\ wk[w].pc = "take"
    /\ IF queue = <<>>
       THEN /\ wk' = [wk EXCEPT ![w].pc = OnEmpty(queue)]
            /\ queue' = queue
       ELSE /\ wk' = [wk EXCEPT ![w] =
                        [wk[w] EXCEPT !.pc = "parse",
                                      !.item = [NewItem(Head(queue).url)
                                                   EXCEPT !.origin = Head(queue).origin]]]
            /\ queue' = Tail(queue)
    /\ UNCHANGED <<cfg, seeds, outDir, cursors, runNo, phase, hist, faults, seen, discovered,
                   stop, exceptCrawl>>

\* parse_sisters and the loop over its links; an exception leaves an ErrorMarker
SisterParse(w) ==
    /\ cfg.runner = "sister"
    /\ wk[w].pc = "parse"
    /\ \E res \in Allowed(SisterResults) :
          LET url == wk[w].item.url
              scan == ScanSisters(res.links, outDir, [seen |-> seen, found |-> <<>>])
          IN  IF res.raised
              THEN /\ wk' = [wk EXCEPT ![w] = SisterNextTask([wk[w] EXCEPT !.caught = @ + 1])]
                   /\ outDir' = WriteFile(outDir, ErrorFile(url))
                   /\ hist' = [hist EXCEPT !.attempts = @ (+) SetToBag({url}), !.wrote = TRUE]
                   /\ faults' = faults + 1
                   /\ UNCHANGED <<queue, seen>>
              ELSE /\ wk' = [wk EXCEPT ![w] =
                               [wk[w] EXCEPT !.pc = "write", !.item.fetchOk = TRUE,
                                             !.tables = Len(res.links), !.found = scan.found]]
                   /\ queue' = queue \o [i \in 1..Len(scan.found) |->
                                            [url |-> scan.found[i], origin |-> wk[w].item.origin]]
                   /\ seen' = scan.seen
                   /\ hist' = [hist EXCEPT !.attempts = @ (+) SetToBag({url}),
                                            !.links = @ \cup LinkKeys(res.links),
                                            !.queued = @ \cup {scan.found[i] : i \in 1..Len(scan.found)}]
                   /\ UNCHANGED <<outDir, faults>>
    /\ UNCHANGED <<cfg, seeds, cursors, runNo, phase, discovered, stop, exceptCrawl>>

\* the node of the task is written
SisterWrite(w) ==
    /\ cfg.runner = "sister"
    /\ wk[w].pc = "write"
    /\ outDir' = WriteFile(outDir, NodeFile(wk[w].item.url, wk[w].tables, wk[w].item.origin))
    /\ wk' = [wk EXCEPT ![w] = [wk[w] EXCEPT !.pc = "append", !.saved = @ + 1]]
    /\ hist' = [hist EXCEPT !.wrote = TRUE]
    /\ UNCHANGED <<cfg, seeds, cursors, runNo, phase, faults, queueVars, exceptCrawl>>

\* _append_discovered, the look at _seen_urls: the noted URLs that are not
\* seen, each once; with none of them nothing is written
SisterAppendCheck(w) ==
    /\ cfg.runner = "sister"
    /\ wk[w].pc = "append"
    /\ LET fresh == Uniq(SelectSeq(wk[w].found, LAMBDA u : u \notin seen), <<>>)
       IN  wk' = [wk EXCEPT ![w] = IF fresh = <<>> THEN [SisterNextTask(wk[w]) EXCEPT !.found = <<>>]
                                   ELSE [wk[w] EXCEPT !.pc = "log", !.found = fresh]]
    /\ UNCHANGED <<cfg, seeds, outDir, cursors, runNo, phase, hist, faults, queueVars, exceptCrawl>>

\* _append_discovered, the rest: the URLs are added to _seen_urls and their
\* lines appended to the log
SisterAppendWrite(w) ==
    /\ cfg.runner = "sister"
    /\ wk[w].pc = "log"
    /\ seen' = seen \cup {wk[w].found[i] : i \in 1..Len(wk[w].found)}
    /\ discovered' = discovered \o [i \in 1..Len(wk[w].found) |->
                                       [url |-> wk[w].found[i], origin |-> wk[w].item.origin]]
    /\ wk' = [wk EXCEPT ![w] = [SisterNextTask(wk[w]) EXCEPT !.found = <<>>]]
    /\ hist' = [hist EXCEPT !.wrote = TRUE]
    /\ UNCHANGED <<cfg, seeds, outDir, cursors, runNo, phase, faults, queue, stop, exceptCrawl>>

\* every thread is joined: run returns
SisterFinish ==
    /\ cfg.runner = "sister"
    /\ phase = "run"
    /\ \A w \in Workers : wk[w].pc \in {"off", "done"}
    /\ phase' = "idle"
    /\ UNCHANGED <<cfg, seeds, outDir, cursors, runNo, wk, hist, faults, queueVars, exceptCrawl>>

NextSister ==
    \/ SisterStart
    \/ \E w \in Workers : SisterTake(w)
    \/ \E w \in Workers : SisterParse(w)
    \/ \E w \in Workers : SisterWrite(w)
    \/ \E w \in Workers : SisterAppendCheck(w)
    \/ \E w \in Workers : SisterAppendWrite(w)
    \/ SisterFinish

\* out_nodes_dir at the first run: empty, or holding the ErrorMarker an earlier
\* crawl left for a sister URL it found and failed to fetch
SisterDirs0 == {{}, {ErrorFile(SHIP2)}}

\* the configurations of the sister-graph crawler
SisterConfigs ==
    [runner : {"sister"}, manual : {FALSE}, batch : {0}, maxItems : {0},
     accounts : {0}, workers : 1..MaxWorkers, loginWait : {FALSE}]

----------------------------------------------------------------------------
(* Specifications                                                          *)

InitAccounts ==
    /\ CanonIdle
    /\ RetryIdle
    /\ DedupeIdle
    /\ CrawlIdle
    /\ ProgIdle
    /\ PoolIdle
    /\ accSrc \in SourceLists
    /\ accLoaded = FALSE
    /\ accOutPool = Loaded(<<>>)
    /\ accOutAny = <<>>

NextAccounts == LoadAccounts

SpecAccounts == InitAccounts /\ [][NextAccounts]_vars

----------------------------------------------------------------------------
InitCanon == canUrl \in UrlParts /\ canDone = FALSE /\ canOut = <<>> /\ canAgain = None /\ AccIdle /\ PoolIdle /\ ProgIdle /\ CrawlIdle /\ RetryIdle /\ DedupeIdle

\* the call canonical(Raw(canUrl))
Canonicalize ==
    /\ canUrl # NoUrl
    /\ ~canDone
    /\ canDone' = TRUE
    /\ canOut' = canonical(Raw(canUrl))
    /\ UNCHANGED <<canUrl, canAgain, exceptCanon>>

\* the call canonical(key) on a key that canonical() returned
CanonicalizeAgain ==
    /\ canDone
    /\ canAgain = None
    /\ canAgain' = canonical(canOut)
    /\ UNCHANGED <<canUrl, canDone, canOut, exceptCanon>>

NextCanon == Canonicalize \/ CanonicalizeAgain

SpecCanon == InitCanon /\ [][NextCanon]_vars

InitPool ==
    /\ CanonIdle
    /\ RetryIdle
    /\ DedupeIdle
    /\ CrawlIdle
    /\ ProgIdle
    /\ AccIdle
    /\ \E n \in 1..MaxAccounts : poolAccounts = AccountList(n)
    /\ poolFile \in CursorFiles
    /\ poolIdx = LoadCursor(poolFile, Len(poolAccounts))
    /\ poolLast = [op |-> "open", ret |-> NoAccount, idx0 |-> 0, file0 |-> poolFile, arg |-> 0,
                   prev |-> "idle"]

NextPool == PoolOpen \/ PoolNext \/ PoolCurrent \/ PoolForceSetIndex

SpecPool == InitPool /\ [][NextPool]_vars

\* what the first process can find: no file, a complete one, a damaged one
ProgressFiles0 ==
    {Absent, File(<<"[", "]">>), File(<<"{", "}">>), File(<<"{", "done:", "1">>),
     File(<<"{", "done:", "1", "}">>), File(<<"{", "meta:", "index", "}">>),
     File(Encode([done |-> <<"1">>, index |-> TRUE])), File(Encode(EmptyProgress))}

InitProgressFiles ==
    /\ CanonIdle
    /\ RetryIdle
    /\ DedupeIdle
    /\ CrawlIdle
    /\ AccIdle
    /\ PoolIdle
    /\ progFile0 \in ProgressFiles0
    /\ \E t \in {Absent, File(<<"{", "done:">>)} :
          progFs = [f \in ProgFiles |-> IF f = ProgressPath THEN progFile0 ELSE t]
    /\ progPc = "idle"
    /\ progNew = EmptyProgress
    /\ progCommitted = NoCommit

InitProgress ==
    /\ InitProgressFiles
    /\ parRun = ParIdle

\* what earlier runs left in out_dir: the complete file of every page the
\* progress file holds as done, and of the other pages no file or one that a
\* failed write cut short
InitPar ==
    /\ InitProgressFiles
    /\ \E left \in [PageKeys -> {"absent", "partial"}] :
          parRun = [ParIdle EXCEPT !.pageFiles =
                       [k \in PageKeys |-> IF k \in DoneKeys(LoadProgress(progFs))
                                           THEN "full" ELSE left[k]]]

NextProgress ==
    MarkDoneOpen \/ SaveIndexOpen \/ DumpChunk \/ DumpClose \/ SaveReplace \/ ProgCrash

SpecProgress == InitProgress /\ [][NextProgress]_vars

NextPar ==
    \/ ParRunStart \/ ParFilter \/ ParRunFinish
    \/ \E t \in PoolThreads : ParTake(t) \/ ParDump(t)
    \/ \E t \in ParThreads :
          MarkAcquire(t) \/ MarkLoad(t) \/ MarkWrite(t) \/ MarkReplace(t) \/ MarkRelease(t)

\* the runs of one manager, one after the other, from what the first one finds
SpecPar == InitPar /\ [][NextPar]_vars

InitRetry ==
    /\ CanonIdle
    /\ AccIdle
    /\ PoolIdle
    /\ ProgIdle
    /\ CrawlIdle
    /\ DedupeIdle
    /\ retry \in RetryCalls

SpecRetry == InitRetry /\ [][ParseCall]_vars

InitDedupe ==
    /\ CanonIdle
    /\ AccIdle
    /\ PoolIdle
    /\ ProgIdle
    /\ CrawlIdle
    /\ RetryIdle
    /\ dedupe \in DedupeCalls

NextDedupe == Dedupe \/ DedupeAgain

SpecDedupe == InitDedupe /\ [][NextDedupe]_vars

InitRot ==
    /\ CanonIdle
    /\ RetryIdle
    /\ DedupeIdle
    /\ AccIdle
    /\ PoolIdle
    /\ ProgIdle
    /\ cfg \in RotConfigs
    /\ seeds \in SeedLists
    /\ outDir = {}
    /\ \E c \in CursorFiles0 : cursors = [f \in CursorNames |-> IF f = CursorBase THEN c ELSE NoFile]
    /\ runNo = 0
    /\ phase = "idle"
    /\ wk = [w \in Workers |-> IdleWorker]
    /\ hist = NoRun
    /\ faults = 0
    /\ queue = <<>>
    /\ seen = {}
    /\ discovered = <<>>
    /\ stop = FALSE

SpecRot == InitRot /\ [][NextRot]_vars

InitFleet ==
    /\ CanonIdle
    /\ RetryIdle
    /\ DedupeIdle
    /\ AccIdle
    /\ PoolIdle
    /\ ProgIdle
    /\ cfg \in FleetConfigs
    /\ seeds \in FleetRowLists
    /\ outDir = {}
    /\ cursors \in FleetCursors0
    /\ runNo = 0
    /\ phase = "idle"
    /\ wk = [w \in Workers |-> IdleWorker]
    /\ hist = NoRun
    /\ faults = 0
    /\ queue = <<>>
    /\ seen = {}
    /\ discovered = <<>>
    /\ stop = FALSE

SpecFleet == InitFleet /\ [][NextFleet]_vars

\* the fleet-pages runner over pages with more rows than workers
InitFleetShards ==
    /\ CanonIdle
    /\ RetryIdle
    /\ DedupeIdle
    /\ AccIdle
    /\ PoolIdle
    /\ ProgIdle
    /\ cfg \in ShardConfigs
    /\ seeds \in ShardRowLists
    /\ outDir = {}
    /\ cursors = [f \in CursorNames |-> NoFile]
    /\ runNo = 0
    /\ phase = "idle"
    /\ wk = [w \in Workers |-> IdleWorker]
    /\ hist = NoRun
    /\ faults = 0
    /\ queue = <<>>
    /\ seen = {}
    /\ discovered = <<>>
    /\ stop = FALSE

SpecFleetShards == InitFleetShards /\ [][NextFleet]_vars

\* the runners that rotate accounts
InitRotFleet == InitRot \/ InitFleet
NextRotFleet == NextRot \/ NextFleet
SpecRotFleet == InitRotFleet /\ [][NextRotFleet]_vars

InitGuard ==
    /\ CanonIdle
    /\ RetryIdle
    /\ DedupeIdle
    /\ AccIdle
    /\ PoolIdle
    /\ ProgIdle
    /\ cfg \in GuardConfigs
    /\ seeds \in SeedLists
    /\ outDir = {}
    /\ cursors = [f \in CursorNames |-> NoFile]
    /\ runNo = 0
    /\ phase = "idle"
    /\ wk = [w \in Workers |-> IdleWorker]
    /\ hist = NoRun
    /\ faults = 0
    /\ queue = <<>>
    /\ seen = {}
    /\ discovered = <<>>
    /\ stop = FALSE

SpecGuard == InitGuard /\ [][NextGuard]_vars

\* the ship-details runners
InitDetails == InitRot \/ InitFleet \/ InitGuard
NextDetails == NextRot \/ NextFleet \/ NextGuard
SpecDetails == InitDetails /\ [][NextDetails]_vars

InitSister ==
    /\ CanonIdle
    /\ RetryIdle
    /\ DedupeIdle
    /\ AccIdle
    /\ PoolIdle
    /\ ProgIdle
    /\ cfg \in SisterConfigs
    /\ seeds \in SeedLists
    /\ outDir \in SisterDirs0
    /\ cursors = [f \in CursorNames |-> NoFile]
    /\ runNo = 0
    /\ phase = "idle"
    /\ wk = [w \in Workers |-> IdleWorker]
    /\ hist = NoRun
    /\ faults = 0
    /\ queue = <<>>
    /\ seen = {}
    /\ discovered = <<>>
    /\ stop = FALSE

SpecSister == InitSister /\ [][NextSister]_vars

\* the seed sources that spell each URL in one way only
PlainSeedLists == {s \in SeedLists : \A i \in 1..Len(s) : s[i].url # SHIP1_ALT}

\* the runners whose threads share a queue; a thread that can take a step
\* takes one in the end (every fetch returns or raises, the threads are scheduled)
InitQueue == (InitGuard \/ InitSister) /\ seeds \in PlainSeedLists
NextQueue == NextGuard \/ NextSister
SpecQueueLive == InitQueue /\ [][NextQueue]_vars /\ WF_vars(NextQueue)

\* the crawl runners that resume from the node store
InitCrawl == InitRot \/ InitFleet \/ InitSister
NextCrawl == NextRot \/ NextFleet \/ NextSister
SpecCrawl == InitCrawl /\ [][NextCrawl]_vars

----------------------------------------------------------------------------
(* Properties                                                              *)

\* the URL that differs from c only in what canonicalisation is to ignore: no
\* wrapping, scheme and host in lower case, no default port, no fragment
PlainForm(c) ==
    LET sch == LowerSeq(c.scheme)
        dflt == \/ (sch = HTTP /\ c.port = <<":", "8", "0">>)
                \/ (sch = HTTPS /\ c.port = <<":", "4", "4", "3">>)
    IN  [c EXCEPT !.lead = <<>>, !.trail = <<>>, !.scheme = sch,
                  !.host = LowerSeq(c.host),
                  !.port = IF dflt THEN <<>> ELSE c.port,
                  !.frag = None]

\* C8: canonical() maps a URL and its plain form (same URL up to scheme/host
\* case, explicit default port, fragment, surrounding whitespace and quotes) to
\* the same string, and the result has the path and the query of the input.
C8_CanonicalIgnoresOnlyCaseportFragmentWrap ==
    canDone =>
        /\ canOut = canonical(Raw(PlainForm(canUrl)))
        /\ UrlSplit(canOut).path = canUrl.path
        /\ UrlSplit(canOut).query = (IF canUrl.query = None THEN <<>> ELSE canUrl.query)

\* the instance the documentation gives: canonical("HTTP://A.cn:80/x?Q=1#f")
\* = canonical("http://a.cn/x?Q=1")
CanonicalExampleAgrees ==
    LET ex == [lead |-> <<>>, scheme |-> <<"H", "T", "T", "P">>, host |-> <<"A", ".", "c", "n">>,
               port |-> <<":", "8", "0">>, path |-> <<"/", "x">>, query |-> <<"Q", "=", "1">>,
               frag |-> <<"f">>, trail |-> <<>>]
    IN  canDone /\ canUrl = ex => canOut = canonical(Raw(PlainForm(ex)))

\* the valid records of the sources, in source order
ValidSources == SelectSeq(SelectSeq(accSrc, LAMBDA o : o.dict), ValidAccount)

\* out keeps exactly one record per lowercased e-mail of the valid source
\* records, and each kept record is a source record whose timestamp (0 when it
\* has none) is the greatest among the records with its e-mail
DedupedNewest(out) ==
    /\ \A j \in 1..Len(ValidSources) :
          Cardinality({i \in 1..Len(out) :
              LowerSeq(out[i].email) = LowerSeq(ValidSources[j].email)}) = 1
    /\ \A i \in 1..Len(out) :
          /\ \E j \in 1..Len(ValidSources) : ValidSources[j] = out[i]
          /\ \A j \in 1..Len(ValidSources) :
                LowerSeq(ValidSources[j].email) = LowerSeq(out[i].email)
                  => (IF ValidSources[j].hasTs THEN ValidSources[j].ts ELSE 0)
                       <= (IF out[i].hasTs THEN out[i].ts ELSE 0)

HasValidRecord ==
    \E i \in 1..Len(accSrc) : accSrc[i].dict /\ accSrc[i].email # <<>> /\ accSrc[i].password # ""

\* every loaded account is such an object of the source
OnlyValidRecords(out) ==
    \A k \in 1..Len(out) :
        \E i \in 1..Len(accSrc) :
            accSrc[i] = out[k] /\ accSrc[i].dict /\ accSrc[i].email # <<>> /\ accSrc[i].password # ""

Residue(i, n) == CHOOSE r \in 0..(n - 1) : \E q \in (0 - MaxAccounts - 2)..(2 * MaxAccounts + 2) : i = q * n + r

C6_ProgressFileAllOrNothing ==
    /\ progCommitted = NoCommit => progFs[ProgressPath] = progFile0
    /\ progCommitted # NoCommit =>
          /\ progFs[ProgressPath].exists
          /\ progFs[ProgressPath].data =
                <<"{", "done:">> \o progCommitted.done \o <<"meta:">>
                  \o (IF progCommitted.index THEN <<"index">> ELSE <<>>) \o <<"}">>
          /\ LoadProgress(progFs) = progCommitted

\* a save was committed, and a later one stopped with the temp file cut short
C6_Witness ==
    /\ progCommitted # NoCommit
    /\ progCommitted.done # <<>>
    /\ progPc = "idle"
    /\ progFs[TmpPath(ProgressPath)].exists
    /\ Len(progFs[TmpPath(ProgressPath)].data) > 2
    /\ progFs[TmpPath(ProgressPath)].data[Len(progFs[TmpPath(ProgressPath)].data)] # "}"

\* the node files of out_dir
NodeFiles == {f \in outDir : f.path[3] = ".json"}

\* C7: seed entries with the same canonical URL are one work item: in a run, at
\* most one pass is made for a canonical URL, and out_dir holds at most one
\* node file per canonical URL.
C7_CanonicalDuplicatesOneItem ==
    /\ \A u, v \in BagToSet(hist.attempts) :
          canonical(u) = canonical(v) => u = v /\ CopiesIn(u, hist.attempts) = 1
    /\ \A f, g \in NodeFiles : canonical(f.url) = canonical(g.url) => f = g

\* C2: a run makes a pass only for URLs that had no node file when it computed
\* its pending list: a URL whose node file was there then, with however few
\* tables, is not fetched in that run, in the first run or a later one.
C2_FetchedOnlyWithoutNode ==
    /\ \A u \in BagToSet(hist.attempts) : <<"ship_", <<"md5", u>>, ".json">> \notin hist.files0
    /\ \A f \in NodeFiles : f.path \in hist.files0 => CopiesIn(f.url, hist.attempts) = 0

\* a later run passes over a URL whose node has too few tables and fetches another
C2_Witness ==
    /\ runNo > 1
    /\ \E f \in NodeFiles :
          /\ f.path \in hist.files0
          /\ f.tables < MinTablesRequired
          /\ \E u \in BagToSet(hist.attempts) : u # f.url

\* the account index that follows i in a pool of n accounts
Following(i, n) == IF i = n - 1 THEN 0 ELSE i + 1

\* the steps recorded after position k of trace t start with these, in this order
FollowedBy(t, k, evs) ==
    \A j \in 1..Len(evs) : k + j <= Len(t) => t[k + j].ev = evs[j] /\ t[k + j].url = t[k].url

SeedBase ==
    IF hist.cursors0[<<"account_cursor", "json">>].kind = "json"
    THEN hist.cursors0[<<"account_cursor", "json">>].index % cfg.accounts ELSE 0

\* C4: a worker w of the fleet-pages runner whose cursor file was not there
\* when the run began makes its first login with account (b + w) mod n, b being
\* the index of the base cursor file; a worker whose cursor file was there
\* starts from the index stored in it.
C4_FreshWorkersFanOut ==
    cfg.runner = "fleet" =>
        \A w \in Workers :
            wk[w].pc \notin {"off", "start"} =>
                IF hist.cursors0[wk[w].cursor].kind = "absent"
                THEN wk[w].first = (SeedBase + w) % cfg.accounts
                ELSE wk[w].first = hist.cursors0[wk[w].cursor].index

\* two fresh workers have made their first login
C4_Witness ==
    /\ cfg.runner = "fleet"
    /\ cfg.workers = 2
    /\ \A w \in {0, 1} : wk[w].pc = "loop" /\ hist.cursors0[wk[w].cursor].kind = "absent"

\* worker w ends a pass of its loop in this step
PassEnds(w) ==
    /\ wk[w].pc \notin {"off", "start", "done", "aborted"}
    /\ wk'[w].pos = wk[w].pos + 1

\* the step leaves an ErrorMarker, a ResultNode, for the URL of the pass of w
MarkerAfter(w) ==
    \E f \in outDir' : f.path = <<"ship_", <<"md5", wk[w].jobs[wk[w].pos]>>, ".error.json">>
NodeAfter(w) ==
    \E f \in outDir' : f.path = <<"ship_", <<"md5", wk[w].jobs[wk[w].pos]>>, ".json">>

\* an exception never ends a worker in its loop: a worker that has caught one
\* is not dead, and a worker returns only when its loop has passed every URL
WorkerGoesOn ==
    \A w \in Workers :
        /\ wk[w].caught > 0 => wk[w].pc # "aborted"
        /\ wk[w].pc = "done" => wk[w].pos > Len(wk[w].jobs)

Frontier ==
    CASE cfg.runner = "rot" -> {LoadUrls(seeds)[i] : i \in 1..Len(LoadUrls(seeds))}
      [] cfg.runner = "fleet" -> {LoadTasks(seeds)[i] : i \in 1..Len(LoadTasks(seeds))}
      [] cfg.runner = "sister" ->
            {LoadSeedItems(seeds)[i].url : i \in 1..Len(LoadSeedItems(seeds))}
      [] OTHER -> {}

\* every URL of the frontier had its node when the run began
AllSaved == \A u \in Frontier : <<"ship_", <<"md5", u>>, ".json">> \in hist.files0

\* the run has fetched no URL, written no file and returned
RunDidNothing ==
    /\ hist.attempts = EmptyBag
    /\ ~hist.wrote
    /\ {f.path : f \in outDir} = hist.files0
    /\ cursors = hist.cursors0
    /\ phase = "idle"

RunComplete == phase = "idle" /\ runNo >= 1 /\ \A w \in Workers : wk[w].pc # "aborted"

\* the URLs the run came to know: its frontier and the links of the pages it parsed
KnownUrls == Frontier \cup hist.links

\* C13: an ErrorMarker is no completion signal. A URL the run knows (from its
\* seeds, or as a link of a page it parsed) that had an ErrorMarker and no
\* ResultNode when the run began is fetched in the run (with no cap on the
\* items of a run): error files play no part in what is processed.
C13_ErrorMarkerNeverBlocks ==
    RunComplete /\ cfg.maxItems = 0 =>
        \A u \in KnownUrls :
            /\ <<"ship_", <<"md5", u>>, ".error.json">> \in hist.files0
            /\ <<"ship_", <<"md5", u>>, ".json">> \notin hist.files0
            => u \in BagToSet(hist.attempts)

\* the tasks of the fleet run that had no node when it began, in task order
PendingAtStart ==
    LET tasks == LoadTasks(seeds)
        cut == IF cfg.maxItems > 0 /\ cfg.maxItems < Len(tasks)
               THEN SubSeq(tasks, 1, cfg.maxItems) ELSE tasks
    IN  SelectSeq(cut, LAMBDA u : <<"ship_", <<"md5", u>>, ".json">> \notin hist.files0)

\* C14: the fleet-pages run gives the pending item at position i (from 0) to
\* worker i mod W: the shards are disjoint, together they are the pending
\* list, each keeps the order of the pending list, and a worker goes through
\* its shard in that order (what it has attempted is a prefix of its shard).
C14_RoundRobinShards ==
    cfg.runner = "fleet" /\ phase = "run" =>
        Let(PendingAtStart,
            LAMBDA pending :
                /\ \A w \in 0..(cfg.workers - 1) :
                      /\ Len(wk[w].jobs)
                            = Cardinality({i \in 0..(Len(pending) - 1) : i % cfg.workers = w})
                      /\ \A k \in 1..Len(wk[w].jobs) :
                            /\ wk[w].jobs[k] = pending[(k - 1) * cfg.workers + w + 1]
                            /\ k > wk[w].pos => wk[w].jobs[k] \notin BagToSet(hist.attempts)
                            /\ k < wk[w].pos => CopiesIn(wk[w].jobs[k], hist.attempts) = 1
                      /\ wk[w].item.url # <<>> => wk[w].item.url = wk[w].jobs[wk[w].pos]
                /\ \A i \in 1..Len(pending) :
                      Cardinality({<<w, k>> \in (0..(cfg.workers - 1)) \X (1..Len(pending)) :
                                      k <= Len(wk[w].jobs) /\ wk[w].jobs[k] = pending[i]}) = 1)

\* three pending items on two workers: worker 0 has the first and the third
\* and is at the third, worker 1 has the second
C14_Witness ==
    /\ cfg.runner = "fleet" /\ phase = "run" /\ cfg.workers = 2
    /\ Len(PendingAtStart) = 3
    /\ wk[0].jobs = <<PendingAtStart[1], PendingAtStart[3]>>
    /\ wk[1].jobs = <<PendingAtStart[2]>>
    /\ wk[0].pos = 2
    /\ wk[0].item.url = PendingAtStart[3]

\* the node of the URL of the pass of w has been written in this pass
SavedInPass(w) == \E k \in 1..Len(wk[w].trace) : wk[w].trace[k].ev = "save"

\* C15: in one pass of a worker's loop for a URL at most one of the URL's
\* ResultNode, ErrorMarker and skipped marker is written, also when a step of
\* a rotation of that pass raises: once the node is written, the pass writes
\* no ErrorMarker and no skipped marker for the URL.
C15_OneArtifactPerCycle ==
    [][\A w \in Workers :
          wk[w].item.url # <<>> /\ SavedInPass(w) =>
              /\ wk'[w].caught = wk[w].caught
              /\ \A f \in outDir' \ outDir :
                    f.path \notin {<<"ship_", <<"md5", wk[w].item.url>>, ".error.json">>,
                                   <<"ship_", <<"md5", wk[w].item.url>>, ".skipped.json">>}]_vars

\* C16: in the threads of the guarded collector, once the stop flag is set no
\* thread begins to fetch a URL it takes from the queue afterwards; a thread
\* fetches after that only the URL it had passed the stop check with; the URLs
\* left in the queue are taken off it without a fetch, and the queue is empty
\* when run returns.
C16_StopFlagHaltsThreads ==
    /\ [](cfg.runner = "guard" =>
            /\ \A w \in Workers : wk[w].pc = "parse" => ~wk[w].stale
            /\ stop /\ phase = "idle" => queue = <<>>)
    /\ [][cfg.runner = "guard" /\ stop /\ runNo' = runNo =>
            /\ \A w \in Workers : wk[w].pc # "parse" => wk'[w].pc # "parse"
            /\ queue' # queue => hist'.attempts = hist.attempts
            /\ \A w \in Workers : wk[w].stale => hist'.attempts = hist.attempts \/ wk'[w] = wk[w]]_vars

\* a thread has set the stop flag and is emptying the queue while another
\* thread holds a URL it took from the queue after the flag was set
C16_Witness ==
    /\ cfg.runner = "guard"
    /\ stop
    /\ \E w, v \in Workers :
          /\ w # v
          /\ wk[w].pc = "purge"
          /\ wk[v].pc = "got"
          /\ wk[v].stale

\* the "done" lists and the dictionaries a progress file can hold
DoneLists == UNION {[1..n -> PageKeys] : n \in 0..MaxPages}
ProgressObjects == [done : DoneLists, index : BOOLEAN]

\* the texts of a JSON object: with both keys, without "meta", without "done"
ObjectTexts ==
    {Encode(q) : q \in ProgressObjects}
      \cup {<<"{", "done:">> \o keys \o <<"}">> : keys \in DoneLists}
      \cup {<<"{", "meta:", "}">>, <<"{", "meta:", "index", "}">>, <<"{", "}">>}

\* C17: _load_progress never raises. It returns the dictionary the progress
\* file holds when the file is the text of a JSON object, a missing "done" or
\* "meta" filled with an empty map; it returns the empty dictionary when the
\* file is absent, is not JSON, or is JSON but not an object.
C17_LoadProgressNeverRaises ==
    Let(LoadProgress(progFs), LAMBDA p :
        LET f == progFs[ProgressPath]
        IN  /\ p \in ProgressObjects
            /\ \A q \in ProgressObjects : f.exists /\ f.data = Encode(q) => p = q
            /\ \A keys \in DoneLists :
                  f.exists /\ f.data = <<"{", "done:">> \o keys \o <<"}">> =>
                      p = [done |-> keys, index |-> FALSE]
            /\ f.exists /\ f.data = <<"{", "meta:", "index", "}">> =>
                  p = [done |-> <<>>, index |-> TRUE]
            /\ f.exists /\ f.data \in {<<"{", "meta:", "}">>, <<"{", "}">>} => p = EmptyProgress
            /\ ~f.exists \/ f.data \notin ObjectTexts => p = EmptyProgress)

\* the first process found a file cut short, and a _mark_done that loaded it
\* has saved its own entry
C17_Witness ==
    /\ progFile0 = File(<<"{", "done:", "1">>)
    /\ progCommitted = [done |-> <<"2">>, index |-> FALSE]
    /\ progFs[ProgressPath] = File(Encode(progCommitted))

\* C18: in the runs of the parallel page manager the "done" map of the progress
\* file only grows: no step of any thread takes a key out of it, and the entry
\* of every _mark_done that has returned is in it, whatever the threads do in
\* between.
C18_DoneMapOnlyGrows ==
    /\ [](parRun.returned \ {"index"} \subseteq DoneKeys(LoadProgress(progFs)))
    /\ []("index" \in parRun.returned => LoadProgress(progFs).index)
    /\ [][DoneKeys(LoadProgress(progFs)) \subseteq DoneKeys(LoadProgress(progFs'))]_vars

\* two threads have marked their pages in one run, the second one while the
\* first held the lock, and both entries are in the file next to the index
C18_Witness ==
    /\ parRun.returned = {"index"} \cup PageKeys
    /\ parRun.phase = "pool"
    /\ parRun.lock = NoHolder
    /\ DoneKeys(LoadProgress(progFs)) = PageKeys
    /\ LoadProgress(progFs).index

\* run of the fleet-pages runner: totals and saved, summed over the futures
\* that returned (len(jobs), saved); a worker that raised adds nothing
FleetReturn ==
    LET RECURSIVE sum(_, _)
        sum(w, field) ==
            IF w >= MaxWorkers THEN 0
            ELSE (IF wk[w].pc # "done" THEN 0
                  ELSE IF field = "jobs" THEN Len(wk[w].jobs) ELSE wk[w].saved)
                 + sum(w + 1, field)
    IN  <<sum(0, "jobs"), sum(0, "saved")>>

\* the node files out_dir has got since the run computed its pending list
NodesWritten == {f \in NodeFiles : f.path \notin hist.files0}

\* C19: when run of the fleet-pages runner returns (assigned, saved), saved is
\* the number of node files written in the run (a skipped or failed item adds
\* nothing, no item adds more than one) and assigned is the number of pending
\* items of the workers that returned.
C19_RunReturnsCounts ==
    cfg.runner = "fleet" /\ phase = "idle" /\ runNo > 0 =>
        Let(FleetReturn, LAMBDA ret :
            /\ ret[2] = Cardinality(NodesWritten)
            /\ \A w \in Workers : wk[w].pc = "done" => wk[w].saved <= Len(wk[w].jobs)
            /\ ret[1] >= ret[2])

\* C20: the discovered log of the sister-graph crawler never holds two lines
\* with the same canonical URL, whatever the threads of a run do and however
\* many runs follow one another on the same log.
C20_DiscoveredLogNoDuplicates ==
    \A i, j \in 1..Len(discovered) :
        CanonicalOf(discovered[i].url) = CanonicalOf(discovered[j].url) => i = j

\* C21: in a run of the sister-graph crawler a canonical URL is put on the
\* queue, taken from it and fetched at most once: the queue never holds it
\* twice, never holds a URL whose fetch has begun, and no fetch begins twice.
C21_SisterUrlQueuedOnce ==
    cfg.runner = "sister" =>
        /\ \A i, j \in 1..Len(queue) :
              CanonicalOf(queue[i].url) = CanonicalOf(queue[j].url) => i = j
        /\ \A i \in 1..Len(queue), u \in BagToSet(hist.attempts) :
              CanonicalOf(queue[i].url) # CanonicalOf(u)
        /\ \A u, v \in BagToSet(hist.attempts) :
              CanonicalOf(u) = CanonicalOf(v) => u = v /\ CopiesIn(u, hist.attempts) = 1

\* the seed entries, in source order, whose URL has the canonical form of url
SeedHits(url) ==
    {i \in 1..Len(seeds) :
        /\ Strip(seeds[i].url, Whitespace) # <<>>
        /\ CanonicalOf(Strip(seeds[i].url, Whitespace)) = CanonicalOf(url)}

\* C22: a node saved for a URL of the seed source carries the origin of the
\* first seed entry with that canonical URL, whatever later entries say.
C22_FirstSeenOriginWins ==
    cfg.runner \in {"rot", "sister"} =>
        \A f \in NodeFiles :
            f.path \notin hist.files0 /\ SeedHits(f.url) # {} =>
                f.origin = seeds[CHOOSE i \in SeedHits(f.url) : \A j \in SeedHits(f.url) : i <= j].origin

\* C23: when run of the parallel page manager has built the page index by the
\* exploratory pass, the index is in "meta" of the progress file by the time
\* the jobs are filtered and the threads of the pool work, so that the next
\* run without rebuild_index finds it.
C23_BuiltIndexIsPersisted ==
    parRun.built /\ parRun.phase \in {"filter", "pool"} => LoadProgress(progFs).index

\* C24: the workers of a run of the fleet-pages runner have cursor files of
\* their own: two workers never have the same file, a cursor file changes
\* during the run only in a step of the worker that owns it, and such a step
\* (a next() of that worker) leaves the other workers and their files as they are.
C24_CursorFilesExclusive ==
    /\ [](cfg.runner = "fleet" =>
            \A w, v \in Workers :
                w # v /\ wk[w].pc # "off" /\ wk[v].pc # "off" => wk[w].cursor # wk[v].cursor)
    /\ [][cfg.runner = "fleet" /\ phase = "run" =>
            /\ \A f \in CursorNames :
                  cursors'[f] # cursors[f] =>
                      \E w \in Workers : wk[w].pc # "off" /\ wk[w].cursor = f /\ wk'[w] # wk[w]
            /\ \A w, v \in Workers :
                  w # v /\ (wk'[w].idx # wk[w].idx \/ cursors'[wk[w].cursor] # cursors[wk[w].cursor]) =>
                      wk'[v] = wk[v] /\ cursors'[wk[v].cursor] = cursors[wk[v].cursor]]_vars

\* two workers are running, and each has advanced the cursor of its own file
C24_Witness ==
    /\ cfg.runner = "fleet"
    /\ phase = "run"
    /\ \E w, v \in Workers :
          /\ w # v
          /\ wk[w].pc # "off" /\ wk[v].pc # "off"
          /\ cursors[wk[w].cursor].kind = "json" /\ hist.cursors0[wk[w].cursor] = NoFile
          /\ cursors[wk[v].cursor].kind = "json" /\ hist.cursors0[wk[v].cursor] = NoFile

\* C25: the first login of a worker in automatic mode: one attempt with the
\* current account; if it succeeds nothing else happens; if it fails the cursor
\* advances once (index + 1 modulo the pool, saved to the worker's file) and a
\* second attempt is made with that account; either way the worker goes on to
\* its first item.
C25_FirstLoginRetriesOnce ==
    [][\A w \in Workers :
          cfg.runner \in {"rot", "fleet"} /\ ~cfg.manual /\ wk[w].pc = "start" /\ wk'[w] # wk[w] =>
              Let(LoadCursor(cursors[wk[w].cursor], cfg.accounts), LAMBDA i0 :
                  /\ wk'[w].pc = "loop"
                  /\ wk'[w].pos = 1
                  /\ \/ /\ faults' = faults
                        /\ wk'[w].trace = <<Event("login", <<>>, i0)>>
                        /\ wk'[w].idx = i0
                        /\ cursors' = cursors
                     \/ /\ faults' = faults + 1
                        /\ wk'[w].trace = <<Event("login", <<>>, i0), Event("advance", <<>>, i0),
                                            Event("login", <<>>, (i0 + 1) % cfg.accounts)>>
                        /\ wk'[w].idx = (i0 + 1) % cfg.accounts
                        /\ cursors' = [cursors EXCEPT ![wk[w].cursor] =
                                          CursorJson((i0 + 1) % cfg.accounts)])]_vars

\* a worker whose first attempt failed with the last account of the pool: it
\* has advanced to the first account, logged in again and stands at its first item
C25_Witness ==
    /\ cfg.runner \in {"rot", "fleet"}
    /\ ~cfg.manual
    /\ \E w \in Workers :
          /\ wk[w].pc = "loop"
          /\ wk[w].pos = 1
          /\ Len(wk[w].trace) = 3
          /\ wk[w].trace[1].idx = cfg.accounts - 1
          /\ wk[w].trace[3] = Event("login", <<>>, 0)
          /\ cursors[wk[w].cursor] = CursorJson(0)

\* the results worker w has saved as nodes in this run, counted in dir
SavedBy(w, dir) ==
    Cardinality({i \in 1..Len(wk[w].jobs) :
                    /\ Exists(dir, NodePath(wk[w].jobs[i]))
                    /\ NodePath(wk[w].jobs[i]) \notin hist.files0})

\* C26: a worker starts a batch rotation only when the results it has saved
\* since its last login have reached batch_logout_every; so when it starts one
\* it has saved at least that many results in the run.
C26_BatchRotationAfterBatchSaved ==
    [][\A w \in Workers :
          /\ cfg.runner \in {"rot", "fleet"}
          /\ wk[w].pc \in {"save", "count"}
          /\ wk'[w].pc \in {"logout", "write"}
          /\ wk'[w].site = "batch"
          => SavedBy(w, outDir') >= cfg.batch]_vars

\* C27: in the fleet-pages runner a result that still has fewer tables than
\* min_tables_required after the retries is never simply saved: the worker
\* either starts a rotation for it (rotate_on_low_tables) or writes the skipped
\* marker and no node for it.
C27_LowResultSkippedOrRotated ==
    [][\A w \in Workers :
          /\ cfg.runner = "fleet"
          /\ wk[w].pc = "count"
          /\ wk'[w] # wk[w]
          /\ wk[w].tables < MinTablesRequired
          => \/ wk'[w].site = "thin"
             \/ /\ SkippedFile(wk[w].item.url, wk[w].tables) \in outDir'
                /\ wk'[w].pc = "loop"
                /\ wk'[w].pos = wk[w].pos + 1
                /\ ~Exists(outDir', NodePath(wk[w].item.url))]_vars

\* where the page loads of the call end it: the first load within the budget
\* that raises or has min_tables tables, else the last load of the budget
StopAt ==
    LET last == retry.retries + 1
        ends == {k \in 1..last : retry.outs[k] = Raises \/ retry.outs[k] >= retry.minTables}
    IN  IF ends = {} THEN last ELSE CHOOSE k \in ends : \A j \in ends : k <= j

C29_ManualModeKeepsCursor ==
    cfg.runner \in {"rot", "fleet"} /\ cfg.manual =>
        \A w \in Workers :
            wk[w].pc # "off" =>
                /\ cursors[wk[w].cursor] = hist.cursors0[wk[w].cursor]
                /\ wk[w].pc # "start" =>
                      wk[w].idx = LoadCursor(hist.cursors0[wk[w].cursor], cfg.accounts)
                /\ \A i \in 1..Len(wk[w].trace) : wk[w].trace[i].ev # "advance"

\* in manual mode a worker whose cursor stands on the last account has logged
\* out and logged in again within the pass for a URL
C29_Witness ==
    /\ cfg.runner \in {"rot", "fleet"}
    /\ cfg.manual
    /\ \E w \in Workers :
          /\ wk[w].idx = cfg.accounts - 1
          /\ cfg.accounts > 1
          /\ \E i, j \in 1..Len(wk[w].trace) :
                i < j /\ wk[w].trace[i].ev = "logout" /\ wk[w].trace[j].ev = "login"

\* worker w holds a fetched result that the loop has accepted: the rotating
\* collector is at or past its save, the fleet worker is past its skip test
Accepted(w) ==
    \/ /\ cfg.runner = "rot"
       /\ \/ wk[w].pc = "save"
          \/ wk[w].pc \in {"logout", "advance", "login", "reset"} /\ wk[w].site \in {"thin", "batch"}
    \/ /\ cfg.runner = "fleet"
       /\ wk[w].pc \in {"count", "write"}
       /\ wk[w].tables # NoTables
       /\ wk[w].tables >= SkipBelow

\* C30: when the pass for a URL ends with an accepted result in hand, the node
\* of that URL is in out_dir, whether or not a rotation took place in the pass
\* and whether or not a step of the rotation raised.
C30_RotationKeepsFetchedResult ==
    [][\A w \in Workers :
          Accepted(w) /\ wk'[w].pos = wk[w].pos + 1
          => Exists(outDir', NodePath(wk[w].item.url))]_vars

\* the steps of a rotation after its logout
RotationSteps == IF cfg.manual THEN <<"login", "reset">> ELSE <<"advance", "login", "reset">>

\* C31: in the rotating collector every logout of a pass comes right after the
\* banner or the save that triggered the rotation and is followed, for the same
\* URL, by the advance (automatic mode), the login and the reset, in this
\* order and with no fetch in between; the steps go on when the logout
\* failed, and after the reset the per-session counter is 0.
C31_RotationStepOrder ==
    cfg.runner = "rot" =>
        LET t == wk[0].trace
        IN  /\ \A k \in 1..Len(t) :
                  t[k].ev = "logout" =>
                      /\ k > 1 /\ t[k - 1].ev \in {"banner", "save"}
                      /\ FollowedBy(t, k, RotationSteps)
                      /\ k = Len(t) => wk[0].pc = RotationSteps[1]
                      /\ k < Len(t) /\ t[Len(t)].ev \in {"advance", "login"} =>
                            wk[0].pc \in {"login", "reset"}
            /\ Len(t) > 0 /\ t[Len(t)].ev = "reset" => wk[0].since = 0 /\ wk[0].pc = "refetch"

\* a rotation for a full batch has logged in after a logout that failed
C31_Witness ==
    /\ cfg.runner = "rot"
    /\ wk[0].pc = "reset"
    /\ wk[0].site = "batch"
    /\ wk[0].logoutFailed
    /\ Len(wk[0].trace) >= 3
    /\ wk[0].trace[Len(wk[0].trace)].ev = "login"

\* the threads of the pool that are inside _mark_done
Marking == {t \in PoolThreads : parRun.th[t].pc \in {"lock", "load", "write", "replace", "unlock", "raise"}}

\* the page keys of a sequence of page numbers
KeysOf(pages) == {PageKey(pages[i]) : i \in 1..Len(pages)}

\* C32: a page of the stored done map has its complete page file; a thread is
\* inside _mark_done only with the complete file of its page; a page whose job
\* raised is not in done until a later job for it succeeds, and the filter of
\* the next run makes a job of every such page that its index holds.
C32_DoneOnlyAfterPageFile ==
    /\ [](\A k \in DoneKeys(LoadProgress(progFs)) \cap PageKeys : parRun.pageFiles[k] = "full")
    /\ [](\A t \in Marking : parRun.pageFiles[parRun.th[t].key] = "full")
    /\ [](\A k \in parRun.failed : k \notin DoneKeys(LoadProgress(progFs)))
    /\ [][parRun.phase = "filter" /\ parRun'.phase # "filter" =>
            \A n \in parRun'.index :
                PageKey(n) \in parRun.failed => PageKey(n) \in KeysOf(parRun'.jobs)]_vars

\* one page is done with its complete file, the write of the other page's file
\* raised: that page is not done, its file is cut short, and a later run has
\* made a job of it again
C32_Witness ==
    /\ parRun.phase = "pool"
    /\ \E k, j \in PageKeys :
          /\ k \in DoneKeys(LoadProgress(progFs))
          /\ k \in parRun.returned
          /\ parRun.pageFiles[k] = "full"
          /\ j \in parRun.failed
          /\ parRun.pageFiles[j] = "partial"
          /\ parRun.jobs = <<2>>
          /\ j = PageKey(2)

\* C33: a run of the guarded collector or of the sister crawler that has
\* started its threads returns in the end, with every thread ended: when the
\* queue is exhausted, also when a sister page links to itself or to a queued
\* page, and in the guarded collector also after the stop flag is set.
C33_RunsEnd ==
    /\ [](phase = "idle" => \A w \in Workers : wk[w].pc \in {"off", "done", "aborted"})
    /\ (phase = "run") ~> (phase = "idle")

\* a run of the sister crawler with two threads has returned after it fetched a
\* page twice, because a sister table named a page that was already queued
C33_Witness ==
    /\ cfg.runner = "sister"
    /\ phase = "idle"
    /\ runNo > 0
    /\ \A w \in Workers : wk[w].pc = "done"
    /\ \E u \in BagToSet(hist.attempts) : CopiesIn(u, hist.attempts) >= 2
    /\ queue = <<>>

\* the URLs of the tasks on the queue
OnQueue == {queue[i].url : i \in 1..Len(queue)}

\* the URLs of the tasks the threads hold
InHand == {wk[w].item.url : w \in {v \in Workers : wk[v].pc \in {"parse", "write", "append", "log"}}}

\* the URL has a ResultNode or an ErrorMarker
Settled(u) == Exists(outDir, NodePath(u)) \/ Exists(outDir, ErrorPath(u))

C35_CursorStaysInsidePool ==
    /\ 0 <= poolIdx /\ poolIdx < Len(poolAccounts)
    /\ poolLast.op \in {"current", "next"} => poolLast.ret = <<"account", poolIdx + 1>>
    /\ poolLast.op = "open" =>
          LET f == poolLast.file0
              inside == 0 <= f.index /\ f.index < Len(poolAccounts)
          IN  /\ f.kind \in {"absent", "garbage", "nokey", "word", "null"} => poolIdx = 0
              /\ f.kind \in {"json", "text", "real"} /\ inside => poolIdx = f.index
              /\ f.kind \in {"json", "text"} /\ ~inside => poolIdx = 0
              /\ f.kind = "real" /\ f.index > Len(poolAccounts) - 1 => poolIdx = 0
              /\ f.kind = "real" /\ f.index < 0 - 1 => poolIdx = 0

\* the statement with every non-integer content giving 0: the cursor is an
\* index of the list, and a pool opened on a file whose index is not a JSON
\* integer inside the list starts at 0
C35_NonIntegerCursorGivesZero ==
    /\ 0 <= poolIdx /\ poolIdx < Len(poolAccounts)
    /\ poolLast.op = "open"
          /\ (\/ poolLast.file0.kind # "json"
              \/ poolLast.file0.index < 0
              \/ poolLast.file0.index >= Len(poolAccounts))
          => poolIdx = 0

\* a pool of several accounts was opened on a file whose index is a string of
\* digits naming the last account, and next() has taken it from there to 0
C35_Witness ==
    /\ Len(poolAccounts) > 1
    /\ poolLast.op = "next"
    /\ poolLast.file0 = CursorText(Len(poolAccounts) - 1)
    /\ poolLast.idx0 = Len(poolAccounts) - 1
    /\ poolIdx = 0

----------------------------------------------------------------------------
(* max_items_per_run over repeated runs                                    *)

\* the URLs a run has given to its workers or put on its queue
GivenOut ==
    UNION {{wk[w].jobs[i] : i \in 1..Len(wk[w].jobs)} : w \in Workers}
        \cup {queue[i].url : i \in 1..Len(queue)}

\* the seed URLs without a node file, in seed order
NotYetDone == SelectSeq(LoadUrls(seeds), LAMBDA u : ~Exists(outDir, NodePath(u)))

\* C37: with max_items_per_run = N > 0, a run that starts takes the first
\* min(N, number of not-yet-done seed URLs) not-yet-done seed URLs
C37_RunTakesFirstNotYetDone ==
    [][(runNo' = runNo + 1 /\ cfg.maxItems > 0)
          => GivenOut' = {NotYetDone[i] : i \in 1..Len(Take(NotYetDone, cfg.maxItems))}]_vars

----------------------------------------------------------------------------
(* One URL in the rotating collector: the banner re-fetch                  *)

\* how often the event is in the trace of a pass
Times(t, ev) == Cardinality({k \in 1..Len(t) : t[k].ev = ev})

\* the most page loads one _parse_with_retry makes
MostLoads ==
    CHOOSE n \in 1..(RetryBudget + 1) :
        /\ \A outs \in ShortOrFull :
              ParseWithRetry(outs, MinTablesRequired, RetryBudget).attempts + 1 <= n
        /\ \E outs \in ShortOrFull :
              ParseWithRetry(outs, MinTablesRequired, RetryBudget).attempts + 1 = n

\* the longest pass, up to the reset that ends it
LongestPass ==
    Len(<<"fetch", "banner", "logout", "advance", "login", "reset",
          "fetch", "save", "logout", "advance", "login">>)

----------------------------------------------------------------------------
(* dedupe_lines                                                            *)

\* the non-blank lines of the call, stripped, in the order of the input
StrippedLines ==
    SelectSeq([i \in 1..Len(dedupe.lines) |-> Strip(dedupe.lines[i], LineSpace)],
              LAMBDA ln : ln # <<>>)

\* the key of a stripped line in the mode of the call
KeyOf(ln) == IF dedupe.loose THEN canonical(ln) ELSE ln

\* the elements of s at the positions of at, in order
RECURSIVE Pick(_, _, _)
Pick(s, at, i) ==
    IF i > Len(s) THEN <<>>
    ELSE IF i \in at THEN <<s[i]>> \o Pick(s, at, i + 1) ELSE Pick(s, at, i + 1)

\* C39: dedupe_lines returns the non-blank input lines, stripped, each key
\* (the stripped line, or its canonical URL when loose) once, at its first
\* occurrence and in input order; no two output lines share a key; and
\* dedupe_lines with the same mode on that output returns it unchanged.
C39_DedupeLinesFirstOfEachKey ==
    /\ dedupe.pc \in {"once", "twice"} =>
          Let(StrippedLines, LAMBDA s :
              /\ dedupe.out =
                    Pick(s, {i \in 1..Len(s) : \A j \in 1..(i - 1) : KeyOf(s[j]) # KeyOf(s[i])}, 1)
              /\ \A i, j \in 1..Len(dedupe.out) :
                    KeyOf(dedupe.out[i]) = KeyOf(dedupe.out[j]) => i = j
              /\ {KeyOf(s[i]) : i \in 1..Len(s)}
                    = {KeyOf(dedupe.out[i]) : i \in 1..Len(dedupe.out)})
    /\ dedupe.pc = "twice" => dedupe.again = dedupe.out

C39_Witness ==
    /\ dedupe.pc = "twice"
    /\ dedupe.loose
    /\ Len(dedupe.lines) = MaxLines
    /\ Len(StrippedLines) = MaxLines
    /\ Len(dedupe.out) = 2
    /\ dedupe.out[1] # canonical(dedupe.out[1])
    /\ canonical(dedupe.out[2]) = <<>>
    /\ dedupe.again = dedupe.out

----------------------------------------------------------------------------
(* canonical() on its own result                                           *)

\* C40: canonical(canonical(u)) = canonical(u) for every URL string u
C40_CanonicalIdempotent == canAgain # None => canAgain = canOut

=====
